---- MODULE Spec2Model ----
(***************************************************************************)
(* Boonta: pace classification, horse scoring, ranking, bet tickets and    *)
(* race simulation (backend/app/ml/pace.py, backend/app/services).         *)
(*                                                                         *)
(* Numbers.  The program computes with Python floats; the model computes   *)
(* with scaled integers:                                                   *)
(*   front advantage, confidence           hundredths   (0.15 -> 15)       *)
(*   total front advantage (a float sum)   thousandths  (0.15 -> 150)      *)
(*   sub-scores (pace, last 3F, record)    1e-7         (0.35 -> 3500000)  *)
(*   composite score                       1e-9         (0.15 -> 150000000)*)
(*   corner positions                      thousandths  (1.5  -> 1500)     *)
(* Japanese string values are written by their English names ("中山" is      *)
(* "Nakayama", "芝" is "turf", "良" is "good", ...).                        *)
(* A missing value (None) is "NONE" for strings and 0 for odds, popularity *)
(* and post position: the program tests all of these with `x or default`   *)
(* and `if x`, which treat None and 0 alike.                               *)
(***************************************************************************)
EXTENDS Integers, Sequences, FiniteSets, TLC

VARIABLES
    race,            \* the race row: venue, track_condition, course_type, distance, grade
    entries,         \* the race's entries as EntryRepository.get_by_race returns them
    ml_predictor,    \* module-level _ml_predictor: "None", "False" or a loaded model
    predictions,     \* the stored Prediction rows, oldest first
    response,        \* what the last create_prediction / generate_simulation call returned
    running_styles,  \* predict_pace called directly: its running_styles argument
    pace_base,       \* predict_pace: the locals right after the base rule
    pace_result,     \* predict_pace: the PaceResult returned
    now,             \* the wall clock that datetime.now(timezone.utc) reads
    records,         \* the rows of the horses and jockeys tables, flushed or committed
    sessions         \* per database session: the get_or_create call it is in, its results

vars == <<race, entries, ml_predictor, predictions, response,
          running_styles, pace_base, pace_result, now, records, sessions>>

(***************************************************************************)
(* Bounds of the exploration.                                              *)
(***************************************************************************)
MaxStyles == 6
MaxEntries == 3
MaxPredictions == 2

NoValue == [none |-> TRUE]

\* The database sessions of concurrent requests (get_db opens one per request).
Sessions == {1, 2}

\* A session that is in no get_or_create call and has made none.
NoCalls == [s \in Sessions |-> [pc |-> "idle", call |-> NoValue, results |-> <<>>]]

Min(a, b) == IF a <= b THEN a ELSE b
Max(a, b) == IF a >= b THEN a ELSE b

Contains(seq, x) == \E i \in 1..Len(seq) : seq[i] = x

IndexOf(seq, x) == CHOOSE i \in 1..Len(seq) : seq[i] = x /\ \A j \in 1..(i - 1) : seq[j] # x

Count(seq, x) == Cardinality({i \in 1..Len(seq) : seq[i] = x})

RECURSIVE SumSeq(_)
SumSeq(seq) == IF seq = <<>> THEN 0 ELSE Head(seq) + SumSeq(Tail(seq))

(***************************************************************************)
(* Characteristic tables (pace.py).                                        *)
(***************************************************************************)
Venues == {"Nakayama", "Tokyo", "Kyoto", "Hanshin", "Chukyo", "Kokura",
           "Niigata", "Fukushima", "Sapporo", "Hakodate"}

\* VENUE_CHARACTERISTICS[venue]["front_advantage"], default 0.0; hundredths
VenueFrontAdvantage(venue) ==
    CASE venue = "Nakayama"  -> 15
      [] venue = "Tokyo"     -> -10
      [] venue = "Kyoto"     -> -5
      [] venue = "Hanshin"   -> 0
      [] venue = "Chukyo"    -> 5
      [] venue = "Kokura"    -> 20
      [] venue = "Niigata"   -> -15
      [] venue = "Fukushima" -> 15
      [] venue = "Sapporo"   -> 15
      [] venue = "Hakodate"  -> 20
      [] OTHER               -> 0

\* VENUE_CHARACTERISTICS[venue]["shape"], default "medium"
VenueShape(venue) ==
    CASE venue \in {"Nakayama", "Kokura", "Fukushima", "Sapporo", "Hakodate"} -> "compact"
      [] venue \in {"Tokyo", "Kyoto", "Niigata"} -> "large"
      [] OTHER -> "medium"

\* TRACK_CONDITION_EFFECTS[condition]["front_modifier"], default 0.0; hundredths
TrackFrontModifier(condition) ==
    CASE condition = "good"           -> 0
      [] condition = "slightly_heavy" -> 5
      [] condition = "heavy"          -> 10
      [] condition = "bad"            -> 15
      [] OTHER                        -> 0

\* The float sum venue_adjustment + track_adjustment, in thousandths.  Six sums
\* are not the exact decimal in IEEE double arithmetic:
\*   -0.05 + 0.15 = 0.09999999999999999    0.05 + 0.10 = 0.15000000000000002
\*   -0.15 + 0.05 = -0.09999999999999999  -0.15 + 0.10 = -0.04999999999999999
\*   -0.10 + 0.15 = 0.04999999999999999    0.20 + 0.10 = 0.30000000000000004
FloatAdd(a, b) ==
    10 * (a + b) +
    (CASE a = -5 /\ b = 15  -> -1
       [] a = 5 /\ b = 10   -> 1
       [] a = -15 /\ b = 5  -> 1
       [] a = -15 /\ b = 10 -> 1
       [] a = -10 /\ b = 15 -> -1
       [] a = 20 /\ b = 10  -> 1
       [] OTHER             -> 0)

(***************************************************************************)
(* predict_pace (pace.py).                                                 *)
(***************************************************************************)
\* BasePace with the fifth rule starting at six front runners instead of five.
BasePaceSixFront(escape_count, front_count) ==
    IF escape_count >= 3 THEN
        [pace_type |-> "high", confidence |-> 85, advantageous |-> <<"STALKER", "CLOSER">>]
    ELSE IF escape_count >= 2 THEN
        [pace_type |-> "high", confidence |-> 70, advantageous |-> <<"STALKER", "CLOSER">>]
    ELSE IF escape_count = 0 THEN
        [pace_type |-> "slow", confidence |-> 80, advantageous |-> <<"FRONT", "STALKER">>]
    ELSE IF escape_count = 1 /\ front_count <= 2 THEN
        [pace_type |-> "slow", confidence |-> 75, advantageous |-> <<"ESCAPE", "FRONT">>]
    ELSE IF escape_count = 1 /\ front_count > 5 THEN
        [pace_type |-> "middle", confidence |-> 60, advantageous |-> <<"FRONT", "STALKER">>]
    ELSE
        [pace_type |-> "middle", confidence |-> 50, advantageous |-> <<"FRONT", "STALKER">>]

\* The base rule, lines 181-216: first match wins on (escape_count, front_count).
BasePace(escape_count, front_count) ==
    IF escape_count >= 3 THEN
        [pace_type |-> "high", confidence |-> 85, advantageous |-> <<"STALKER", "CLOSER">>]
    ELSE IF escape_count >= 2 THEN
        [pace_type |-> "high", confidence |-> 70, advantageous |-> <<"STALKER", "CLOSER">>]
    ELSE IF escape_count = 0 THEN
        [pace_type |-> "slow", confidence |-> 80, advantageous |-> <<"FRONT", "STALKER">>]
    ELSE IF escape_count = 1 /\ front_count <= 2 THEN
        [pace_type |-> "slow", confidence |-> 75, advantageous |-> <<"ESCAPE", "FRONT">>]
    ELSE IF escape_count = 1 /\ front_count >= 5 THEN
        [pace_type |-> "middle", confidence |-> 60, advantageous |-> <<"FRONT", "STALKER">>]
    ELSE
        [pace_type |-> "middle", confidence |-> 50, advantageous |-> <<"FRONT", "STALKER">>]

\* pace_control_factor, lines 165-179; hundredths.  escape_popularities = <<>>
\* stands for None and for the empty list.
PaceControlFactor(escape_count, escape_popularities) ==
    IF escape_popularities # <<>> /\ escape_count > 0 THEN
        IF \E i \in 1..Len(escape_popularities) : escape_popularities[i] <= 3 THEN 85
        ELSE IF SumSeq(escape_popularities) >= 8 * Len(escape_popularities) THEN 115
        ELSE 100
    ELSE 100

\* Confidence after the escape-quality, distance and venue steps, lines 218-259,
\* before the final clamp.
AdjustConfidence(base, factor, distance, total_front_advantage) ==
    LET c1 == IF factor # 100 /\ base.pace_type = "high" /\ factor < 100
                  THEN base.confidence - 10
              ELSE IF factor # 100 /\ base.pace_type = "slow" /\ factor > 100
                  THEN base.confidence - 10
              ELSE base.confidence
        c2 == IF distance >= 2400 /\ base.pace_type = "high" THEN c1 - 10
              ELSE IF distance < 2400 /\ distance <= 1400 /\ base.pace_type = "slow" THEN c1 - 10
              ELSE c1
    IN  IF total_front_advantage >= 150 THEN c2 + 5
        ELSE IF total_front_advantage <= -100 THEN c2 + 5
        ELSE c2

\* The course-type and venue steps inserting ESCAPE without looking for it in
\* the list.
AdjustAdvantageousAlwaysInserting(base, course_type, total_front_advantage) ==
    LET a1 == IF course_type = "dirt"
                 /\ ~Contains(base.advantageous, "ESCAPE")
                 /\ ~Contains(base.advantageous, "FRONT")
                  THEN <<"FRONT">> \o base.advantageous
              ELSE base.advantageous
    IN  IF total_front_advantage >= 150 THEN
            IF base.pace_type = "slow" THEN <<"ESCAPE">> \o a1 ELSE a1
        ELSE IF total_front_advantage <= -100 THEN
            IF base.pace_type = "high" /\ ~Contains(a1, "CLOSER")
                THEN Append(a1, "CLOSER") ELSE a1
        ELSE a1

\* The advantageous list after the course-type and venue steps, lines 237-259.
AdjustAdvantageous(base, course_type, total_front_advantage) ==
    LET a1 == IF course_type = "dirt"
                 /\ ~Contains(base.advantageous, "ESCAPE")
                 /\ ~Contains(base.advantageous, "FRONT")
                  THEN <<"FRONT">> \o base.advantageous
              ELSE base.advantageous
    IN  IF total_front_advantage >= 150 THEN
            IF base.pace_type = "slow" /\ ~Contains(a1, "ESCAPE")
                THEN <<"ESCAPE">> \o a1 ELSE a1
        ELSE IF total_front_advantage <= -100 THEN
            IF base.pace_type = "high" /\ ~Contains(a1, "CLOSER")
                THEN Append(a1, "CLOSER") ELSE a1
        ELSE a1

PredictPace(styles, distance, course_type, venue, track_condition, escape_popularities) ==
    LET escape_count == Count(styles, "ESCAPE")
        front_count == Count(styles, "FRONT")
        venue_adjustment == VenueFrontAdvantage(venue)
        track_adjustment ==
            TrackFrontModifier(IF track_condition = "NONE" THEN "good" ELSE track_condition)
        total == FloatAdd(venue_adjustment, track_adjustment)
        base == BasePace(escape_count, front_count)
        factor == PaceControlFactor(escape_count, escape_popularities)
        confidence == AdjustConfidence(base, factor, distance, total)
    IN  [pace_type |-> base.pace_type,
         confidence |-> Max(30, Min(100, confidence)),
         advantageous_styles |-> AdjustAdvantageous(base, course_type, total),
         escape_count |-> escape_count,
         front_count |-> front_count,
         stalker_count |-> Count(styles, "STALKER"),
         closer_count |-> Count(styles, "CLOSER"),
         venue_adjustment |-> venue_adjustment,
         track_condition_adjustment |-> track_adjustment]

(***************************************************************************)
(* calculate_post_position_effect (pace.py); thousandths.                  *)
(***************************************************************************)
\* post_position None, as distinct from every number a caller can pass
NoPostPosition == 0 - 1

\* calculate_post_position_effect with the outer gates counted from the size of
\* the field instead of from gate 6
CalculatePostPositionEffectByFieldSize(post_position, running_style, venue, total_horses) ==
    LET shape == VenueShape(venue)
        is_outer == post_position * 8 >= total_horses * 3
        is_inner == post_position <= 3
    IN  IF running_style = "NONE" \/ post_position = NoPostPosition THEN 1000
        ELSE IF running_style = "ESCAPE" THEN
            IF is_outer THEN (IF shape = "compact" THEN 855 ELSE 900)
            ELSE IF is_inner THEN 1050
            ELSE 1000
        ELSE IF running_style = "FRONT" THEN
            IF is_outer /\ shape = "compact" THEN 950 ELSE 1000
        ELSE IF running_style \in {"STALKER", "CLOSER"} THEN
            IF shape = "compact" THEN
                (IF is_inner THEN 1050 ELSE IF is_outer THEN 950 ELSE 1000)
            ELSE 1000
        ELSE 1000

CalculatePostPositionEffect(post_position, running_style, venue, total_horses) ==
    LET shape == VenueShape(venue)
        is_outer == post_position >= 6
        is_inner == post_position <= 3
    IN  IF running_style = "NONE" \/ post_position = NoPostPosition THEN 1000
        ELSE IF running_style = "ESCAPE" THEN
            IF is_outer THEN (IF shape = "compact" THEN 855 ELSE 900)
            ELSE IF is_inner THEN 1050
            ELSE 1000
        ELSE IF running_style = "FRONT" THEN
            IF is_outer /\ shape = "compact" THEN 950 ELSE 1000
        ELSE IF running_style \in {"STALKER", "CLOSER"} THEN
            IF shape = "compact" THEN
                (IF is_inner THEN 1050 ELSE IF is_outer THEN 950 ELSE 1000)
            ELSE 1000
        ELSE 1000

\* total_horses: int = 16, the value a call that does not pass it runs with
DefaultTotalHorses == 16

(***************************************************************************)
(* PredictionService (prediction_service.py).                              *)
(***************************************************************************)
\* style_to_corner.get(running_style, 8.0); tenths
StyleToCorner(running_style) ==
    CASE running_style = "ESCAPE"  -> 15
      [] running_style = "FRONT"   -> 40
      [] running_style = "STALKER" -> 70
      [] running_style = "CLOSER"  -> 120
      [] OTHER                     -> 80

\* Last3fOf with the favourite tier one popularity rank wider.
Last3fOfWiderTier(popularity) ==
    IF popularity <= 4 THEN [avg |-> 335, best |-> 330]
    ELSE IF popularity <= 6 THEN [avg |-> 340, best |-> 335]
    ELSE [avg |-> 345, best |-> 340]

\* avg_last_3f and best_last_3f estimated from popularity, lines 171-180; tenths
\* of a second
Last3fOf(popularity) ==
    IF popularity <= 3 THEN [avg |-> 335, best |-> 330]
    ELSE IF popularity <= 6 THEN [avg |-> 340, best |-> 335]
    ELSE [avg |-> 345, best |-> 340]

\* One HorseAnalysis, the body of the loop of _analyze_all_horses.
\* avg_last_3f and best_last_3f are tenths of a second, win_rate and place_rate 1e-7.
AnalyzeHorse(entry, race_grade) ==
    LET running_style == IF entry.running_style = "NONE" THEN "VERSATILE"
                         ELSE entry.running_style
        popularity == IF entry.popularity = 0 THEN 10 ELSE entry.popularity
        odds == IF entry.odds = 0 THEN 50 ELSE entry.odds
    IN  [horse_id |-> entry.horse_id,
         horse_number |-> entry.horse_number,
         running_style |-> running_style,
         avg_first_corner |-> StyleToCorner(running_style),
         avg_last_3f |-> Last3fOf(popularity).avg,
         best_last_3f |-> Last3fOf(popularity).best,
         win_rate |-> Min((10 * 1000 * 1000) \div odds, 5000000),
         place_rate |-> Min((30 * 1000 * 1000) \div odds, 8000000),
         grade_race_wins |->
             IF race_grade = "G1" THEN (IF popularity <= 10 THEN 1 ELSE 0)
             ELSE IF race_grade \in {"G2", "G3"} THEN (IF popularity <= 5 THEN 1 ELSE 0)
             ELSE 0,
         odds |-> entry.odds,
         popularity |-> entry.popularity]

\* _analyze_all_horses: analyses keyed by horse_id; an entry whose horse row is
\* missing (entry.horse is None) gets no analysis.
AnalyzeAllHorses(es, race_grade) ==
    LET ids == {es[i].horse_id : i \in {j \in 1..Len(es) : es[j].has_horse}}
    IN  [h \in ids |->
            AnalyzeHorse(es[CHOOSE i \in 1..Len(es) :
                                /\ es[i].horse_id = h /\ es[i].has_horse
                                /\ \A j \in (i + 1)..Len(es) :
                                      ~(es[j].horse_id = h /\ es[j].has_horse)],
                         race_grade)]

\* The style _predict_pace collects for one entry.
PaceStyleOf(entry, analyses) ==
    IF entry.horse_id \in DOMAIN analyses THEN analyses[entry.horse_id].running_style
    ELSE IF entry.running_style = "NONE" THEN "VERSATILE"
    ELSE entry.running_style

RECURSIVE EscapePopularities(_, _)
EscapePopularities(es, analyses) ==
    IF es = <<>> THEN <<>>
    ELSE (IF PaceStyleOf(Head(es), analyses) = "ESCAPE" /\ Head(es).popularity # 0
              THEN <<Head(es).popularity>> ELSE <<>>)
         \o EscapePopularities(Tail(es), analyses)

\* The PacePrediction built from predict_pace's result, lines 269-276.
ToPacePrediction(p) ==
    [type |-> p.pace_type,
     confidence |-> p.confidence,
     advantageous_styles |-> p.advantageous_styles,
     escape_count |-> p.escape_count,
     front_count |-> p.front_count]

\* _predict_pace
ServicePredictPace(es, analyses, r) ==
    ToPacePrediction(PredictPace([i \in 1..Len(es) |-> PaceStyleOf(es[i], analyses)],
                                 r.distance, r.course_type, r.venue, r.track_condition,
                                 EscapePopularities(es, analyses)))

\* _calculate_pace_score without the upper limit of line 506; 1e-7
CalculatePaceScoreUncapped(analysis, pace, r, entry) ==
    LET style == analysis.running_style
        b1 == IF Contains(pace.advantageous_styles, style)
                  THEN (IF style = pace.advantageous_styles[1] THEN 3500000 ELSE 3000000)
              ELSE 1000000
        b2 == b1 + (IF r.venue = "NONE" THEN 0
                    ELSE IF style \in {"ESCAPE", "FRONT"}
                        THEN VenueFrontAdvantage(r.venue) * 30000
                    ELSE IF style \in {"STALKER", "CLOSER"}
                        THEN -(VenueFrontAdvantage(r.venue) * 20000)
                    ELSE 0)
        b3 == b2 + (IF r.track_condition = "NONE" THEN 0
                    ELSE IF style \in {"ESCAPE", "FRONT"}
                        THEN TrackFrontModifier(r.track_condition) * 20000
                    ELSE IF style \in {"STALKER", "CLOSER"}
                        THEN -(TrackFrontModifier(r.track_condition) * 15000)
                    ELSE 0)
        b4 == (b3 \div 1000)
              * (IF entry.post_position # 0
                     THEN CalculatePostPositionEffect(entry.post_position, style, r.venue,
                                                      DefaultTotalHorses)
                 ELSE 1000)
        b5 == b4 + (IF pace.type = "high" /\ analysis.best_last_3f <= 335 THEN 1000000 ELSE 0)
        b6 == b5 + (IF pace.type = "slow" /\ analysis.avg_first_corner <= 50 THEN 1000000 ELSE 0)
    IN  Max(500000, b6)

\* _calculate_pace_score; 1e-7
CalculatePaceScore(analysis, pace, r, entry) ==
    LET style == analysis.running_style
        b1 == IF Contains(pace.advantageous_styles, style)
                  THEN (IF style = pace.advantageous_styles[1] THEN 3500000 ELSE 3000000)
              ELSE 1000000
        b2 == b1 + (IF r.venue = "NONE" THEN 0
                    ELSE IF style \in {"ESCAPE", "FRONT"}
                        THEN VenueFrontAdvantage(r.venue) * 30000
                    ELSE IF style \in {"STALKER", "CLOSER"}
                        THEN -(VenueFrontAdvantage(r.venue) * 20000)
                    ELSE 0)
        b3 == b2 + (IF r.track_condition = "NONE" THEN 0
                    ELSE IF style \in {"ESCAPE", "FRONT"}
                        THEN TrackFrontModifier(r.track_condition) * 20000
                    ELSE IF style \in {"STALKER", "CLOSER"}
                        THEN -(TrackFrontModifier(r.track_condition) * 15000)
                    ELSE 0)
        b4 == (b3 \div 1000)
              * (IF entry.post_position # 0
                     THEN CalculatePostPositionEffect(entry.post_position, style, r.venue,
                                                      DefaultTotalHorses)
                 ELSE 1000)
        b5 == b4 + (IF pace.type = "high" /\ analysis.best_last_3f <= 335 THEN 1000000 ELSE 0)
        b6 == b5 + (IF pace.type = "slow" /\ analysis.avg_first_corner <= 50 THEN 1000000 ELSE 0)
    IN  Max(500000, Min(b6, 5000000))

\* _calculate_last_3f_score; 1e-7
CalculateLast3fScore(analysis, pace) ==
    LET best == analysis.best_last_3f
        tier == IF best <= 325 THEN 3500000
                ELSE IF best <= 330 THEN 3000000
                ELSE IF best <= 335 THEN 2500000
                ELSE IF best <= 340 THEN 2000000
                ELSE IF best <= 345 THEN 1500000
                ELSE 1000000
        stability == 100 - Min((analysis.avg_last_3f - best) * 5, 30)
        s1 == (tier \div 100) * stability
        s2 == IF pace.type = "high" THEN (s1 \div 10) * 12 ELSE s1
    IN  Min(s2, 4000000)

\* _calculate_track_record_score; 1e-7
CalculateTrackRecordScore(analysis) ==
    LET s == (analysis.win_rate \div 10) * 4 + (analysis.place_rate \div 10) * 3
             + (IF analysis.grade_race_wins >= 3 THEN 3000000
                ELSE IF analysis.grade_race_wins >= 1 THEN 2000000
                ELSE 500000)
    IN  Min(s, 4000000)

\* What predictor.predict_proba returns for one row (the probability of class 1),
\* 1e-7.  The AutoGluon model is not part of the repository: a loaded model is a
\* fixed function of the feature row, here of the row's odds.
PredictProba(row) ==
    IF row.odds <= 2 THEN 8000000 ELSE IF row.odds <= 10 THEN 3000000 ELSE 1000000

\* _get_ml_predictions: horse_id -> place probability, empty when no predictor is
\* available, no entry has an analysis, or predict_proba raises.
GetMlPredictions(es, analyses, predictor) ==
    LET ids == {es[i].horse_id : i \in {j \in 1..Len(es) : es[j].horse_id \in DOMAIN analyses}}
    IN  IF predictor # "Loaded" THEN [h \in {} |-> 0]
        ELSE [h \in ids |->
                 PredictProba([odds |-> IF analyses[h].odds = 0 THEN 50 ELSE analyses[h].odds])]

\* base_score, lines 371-375; 1e-7
BaseScore(analysis) ==
    IF analysis.odds > 0 THEN (10 * 1000 * 1000) \div analysis.odds ELSE 500000

\* TotalScore with the weights 0.45 / 0.35 / 0.10 / 0.10 and 0.50 / 0.25 / 0.25.
TotalScoreOtherWeights(use_ml, ml_score, base_score, pace_score, last_3f_score, track_record_score) ==
    IF use_ml
        THEN ml_score * 45 + pace_score * 35 + last_3f_score * 10 + track_record_score * 10
    ELSE pace_score * 50 + last_3f_score * 25 + track_record_score * 25

\* total_score, lines 389-403; 1e-9
TotalScore(use_ml, ml_score, base_score, pace_score, last_3f_score, track_record_score) ==
    IF use_ml
        THEN ml_score * 40 + pace_score * 25 + last_3f_score * 20 + track_record_score * 15
    ELSE base_score * 20 + pace_score * 35 + last_3f_score * 25 + track_record_score * 20

\* IsDarkHorse with the score threshold 0.25 instead of 0.15.
IsDarkHorseHigherThreshold(analysis, total_score) ==
    analysis.popularity # 0 /\ analysis.popularity >= 6 /\ total_score >= 250000000

\* IsDarkHorse deciding on the score alone.
IsDarkHorseOnScoreAlone(analysis, total_score) ==
    total_score >= 150000000

\* is_dark_horse, lines 405-411
IsDarkHorse(analysis, total_score) ==
    analysis.popularity # 0 /\ analysis.popularity >= 6 /\ total_score >= 150000000

\* The row of one horse with the ML weighting chosen horse by horse: only for a
\* horse whose own ML score is at least 0.3.
HorsePredictionOfPerHorse(entry, analysis, pace, r, use_ml, ml_predictions) ==
    LET pace_score == CalculatePaceScore(analysis, pace, r, entry)
        last_3f_score == CalculateLast3fScore(analysis, pace)
        track_record_score == CalculateTrackRecordScore(analysis)
        ml_score == IF entry.horse_id \in DOMAIN ml_predictions
                        THEN ml_predictions[entry.horse_id] ELSE 0
        total_score == TotalScore(use_ml /\ ml_score >= 3000000, ml_score,
                                  BaseScore(analysis), pace_score,
                                  last_3f_score, track_record_score)
    IN  [rank |-> 1,
         horse_id |-> entry.horse_id,
         horse_number |-> analysis.horse_number,
         score |-> Min(total_score, 1000 * 1000 * 1000),
         popularity |-> analysis.popularity,
         odds |-> analysis.odds,
         is_dark_horse |-> IsDarkHorse(analysis, total_score)]

\* The HorsePrediction appended for one entry, before ranks are assigned.
HorsePredictionOf(entry, analysis, pace, r, use_ml, ml_predictions) ==
    LET pace_score == CalculatePaceScore(analysis, pace, r, entry)
        last_3f_score == CalculateLast3fScore(analysis, pace)
        track_record_score == CalculateTrackRecordScore(analysis)
        ml_score == IF entry.horse_id \in DOMAIN ml_predictions
                        THEN ml_predictions[entry.horse_id] ELSE 0
        total_score == TotalScore(use_ml, ml_score, BaseScore(analysis), pace_score,
                                  last_3f_score, track_record_score)
    IN  [rank |-> 1,
         horse_id |-> entry.horse_id,
         horse_number |-> analysis.horse_number,
         score |-> Min(total_score, 1000 * 1000 * 1000),
         popularity |-> analysis.popularity,
         odds |-> analysis.odds,
         is_dark_horse |-> IsDarkHorse(analysis, total_score)]

\* InsertByScore placing a row before the rows of equal score.
RECURSIVE InsertByScoreBeforeEqual(_, _)
InsertByScoreBeforeEqual(sorted, row) ==
    IF sorted = <<>> THEN <<row>>
    ELSE IF Head(sorted).score > row.score
        THEN <<Head(sorted)>> \o InsertByScoreBeforeEqual(Tail(sorted), row)
    ELSE <<row>> \o sorted

\* rankings.sort(key=lambda x: x.score, reverse=True): a stable sort, rows of equal
\* score keep the order in which they were appended.
RECURSIVE InsertByScore(_, _)
InsertByScore(sorted, row) ==
    IF sorted = <<>> THEN <<row>>
    ELSE IF Head(sorted).score >= row.score
        THEN <<Head(sorted)>> \o InsertByScore(Tail(sorted), row)
    ELSE <<row>> \o sorted

RECURSIVE SortByScore(_)
SortByScore(rows) ==
    IF rows = <<>> THEN <<>>
    ELSE InsertByScore(SortByScore(SubSeq(rows, 1, Len(rows) - 1)), rows[Len(rows)])

RECURSIVE UnrankedRows(_, _, _, _, _, _)
UnrankedRows(es, analyses, pace, r, use_ml, ml_predictions) ==
    IF es = <<>> THEN <<>>
    ELSE (IF Head(es).horse_id \in DOMAIN analyses
              THEN <<HorsePredictionOf(Head(es), analyses[Head(es).horse_id], pace, r,
                                       use_ml, ml_predictions)>>
          ELSE <<>>)
         \o UnrankedRows(Tail(es), analyses, pace, r, use_ml, ml_predictions)

\* for i, r in enumerate(rankings): r.rank = i + 1
AssignRanks(sorted) == [i \in 1..Len(sorted) |-> [sorted[i] EXCEPT !.rank = i]]

\* _generate_rankings_with_pace: the rows sorted, rank = position.
GenerateRankingsWithPace(es, analyses, pace, r, ml_predictions) ==
    AssignRanks(SortByScore(UnrankedRows(es, analyses, pace, r,
                                         DOMAIN ml_predictions # {}, ml_predictions)))

\* list(dict.fromkeys(seq)): first occurrences, in order
RECURSIVE Dedupe(_)
Dedupe(seq) ==
    IF seq = <<>> THEN <<>>
    ELSE LET init == Dedupe(SubSeq(seq, 1, Len(seq) - 1))
         IN  IF Contains(init, seq[Len(seq)]) THEN init ELSE Append(init, seq[Len(seq)])

Prefix(seq, n) == SubSeq(seq, 1, Min(n, Len(seq)))

SelectDarkHorses(rankings) == SelectSeq(rankings, LAMBDA row : row.is_dark_horse)

\* The tickets _generate_bets builds (lines 568-613) and their total, in yen.
GenerateTickets(rankings) ==
    LET numbers == [i \in 1..Len(rankings) |-> rankings[i].horse_number]
        top_horses == Prefix(numbers, 2)
        counter_horses == SubSeq(numbers, 3, Min(6, Len(numbers)))
        flagged == SelectDarkHorses(rankings)
        dark_horses == Prefix([i \in 1..Len(flagged) |-> flagged[i].horse_number], 2)
        second == Dedupe(top_horses \o Prefix(counter_horses, 2))
        all_horses == Dedupe(top_horses \o Prefix(counter_horses, 2) \o dark_horses)
        trifecta == [type |-> "formation", first |-> top_horses, second |-> second,
                     third |-> all_horses,
                     combinations |-> Len(top_horses) * Len(second) * Len(all_horses),
                     amount_per_ticket |-> 100]
        trio == [type |-> "box", horses |-> Prefix(all_horses, 5),
                 combinations |-> 10, amount_per_ticket |-> 300]
        exacta == IF rankings[1].score > 250000000
                      THEN [type |-> "first_to_others", first |-> numbers[1],
                            second |-> SubSeq(numbers, 2, Min(4, Len(numbers))),
                            combinations |-> 3, amount_per_ticket |-> 500]
                  ELSE NoValue
        wide == IF dark_horses # <<>>
                    THEN [pairs |-> <<<<dark_horses[1], top_horses[1]>>>>,
                          amount_per_ticket |-> 200]
                ELSE NoValue
    IN  [trifecta |-> trifecta, trio |-> trio, exacta |-> exacta, wide |-> wide,
         total |-> trifecta.combinations * trifecta.amount_per_ticket
                   + trio.combinations * trio.amount_per_ticket
                   + (IF exacta # NoValue
                          THEN exacta.combinations * exacta.amount_per_ticket ELSE 0)
                   + (IF wide # NoValue THEN Len(wide.pairs) * wide.amount_per_ticket ELSE 0)]

\* _generate_bets: the BetRecommendation returned.  The schema declares trio,
\* trifecta_multi, total_investment and note; the keyword arguments trifecta,
\* exacta, wide and high_risk_bets name no field of it and are not kept.
GenerateBets(rankings) ==
    IF Len(rankings) < 3
        THEN [trio |-> NoValue, trifecta_multi |-> NoValue, total_investment |-> 0]
    ELSE LET t == GenerateTickets(rankings)
         IN  [trio |-> t.trio, trifecta_multi |-> NoValue, total_investment |-> t.total]

\* get_ml_predictor deciding anew on every call, whatever an earlier call left.
LoadOutcomesEveryCall(current) == {"False", "Loaded", "LoadedFailing"}

\* What get_ml_predictor() leaves in _ml_predictor: a first call loads the model
\* ("Loaded"; "LoadedFailing" is a loaded model whose predict_proba raises) or
\* marks it unavailable ("False"); later calls keep what the first one left.
LoadOutcomes(current) ==
    IF current = "None" THEN {"False", "Loaded", "LoadedFailing"} ELSE {current}

\* The prediction create_prediction computes from the race and its entries.
ComputePrediction(es, r, predictor) ==
    LET analyses == AnalyzeAllHorses(es, r.grade)
        pace == ServicePredictPace(es, analyses, r)
        ml_predictions == GetMlPredictions(es, analyses, predictor)
        rankings == GenerateRankingsWithPace(es, analyses, pace, r, ml_predictions)
    IN  [rankings |-> rankings,
         use_ml |-> DOMAIN ml_predictions # {},
         pace_prediction |-> pace,
         recommended_bets |-> GenerateBets(rankings)]

(***************************************************************************)
(* Race simulation (simulation_service.py).                                *)
(***************************************************************************)
\* STYLE_TO_CORNER_POSITION.get(style, 8.0); thousandths
StyleToCornerPosition(style) ==
    CASE style = "ESCAPE"  -> 1500
      [] style = "FRONT"   -> 4000
      [] style = "STALKER" -> 7000
      [] style = "CLOSER"  -> 12000
      [] OTHER             -> 8000

\* get_pace_advantage_score (pace.py), times 20
GetPaceAdvantageScore(running_style, pace) ==
    IF Contains(pace.advantageous_styles, running_style)
        THEN 24 - (IndexOf(pace.advantageous_styles, running_style) - 1)
    ELSE IF pace.pace_type = "high" /\ running_style \in {"ESCAPE", "FRONT"} THEN 17
    ELSE IF pace.pace_type = "slow" /\ running_style \in {"STALKER", "CLOSER"} THEN 17
    ELSE 20

\* math.log(n) in thousandths, for the values odds + 1 takes here
Ln1000(n) ==
    CASE n = 3  -> 1099
      [] n = 11 -> 2398
      [] n = 51 -> 3932

\* horses_data, lines 219-235: one record per entry that has a horse
RECURSIVE HorsesData(_)
HorsesData(es) ==
    IF es = <<>> THEN <<>>
    ELSE (IF Head(es).has_horse
              THEN LET style == IF Head(es).running_style = "NONE" THEN "VERSATILE"
                                ELSE Head(es).running_style
                   IN  <<[horse_number |-> Head(es).horse_number,
                          running_style |-> style,
                          base_position |-> StyleToCornerPosition(style)
                                            + ((Head(es).horse_number * 100) % 1000),
                          odds |-> IF Head(es).odds = 0 THEN 50 ELSE Head(es).odds]>>
          ELSE <<>>)
         \o HorsesData(Tail(es))

\* The position of a horse at a corner, lines 245-279.  Only the order within one
\* corner matters, so each corner has its own unit: 1e-5 at 1C..4C, and at the goal
\* base * (0.7 / advantage) * (1 + ln(odds + 1) / 5) in 1e-7.
CornerPosition(corner_name, horse, pace) ==
    LET style == horse.running_style
        base == horse.base_position
    IN  CASE corner_name = "1C" -> base * 100
          [] corner_name = "2C" -> base * 95
          [] corner_name = "3C" ->
                 IF style \in {"STALKER", "VERSATILE"} THEN base * 80
                 ELSE IF style = "CLOSER" THEN base * 90
                 ELSE base * 100
          [] corner_name = "4C" ->
                 IF pace.pace_type = "high"
                     THEN IF style \in {"STALKER", "CLOSER"} THEN base * 60 ELSE base * 120
                 ELSE IF pace.pace_type = "slow"
                     THEN IF style \in {"ESCAPE", "FRONT"} THEN base * 90 ELSE base * 95
                 ELSE base * 85
          [] OTHER ->
                 (base * (5000 + Ln1000(horse.odds + 1)) * 14)
                     \div GetPaceAdvantageScore(style, pace)

\* positions.sort(key=lambda x: x["position"]): stable, ascending
RECURSIVE InsertByPosition(_, _)
InsertByPosition(sorted, p) ==
    IF sorted = <<>> THEN <<p>>
    ELSE IF Head(sorted).position <= p.position
        THEN <<Head(sorted)>> \o InsertByPosition(Tail(sorted), p)
    ELSE <<p>> \o sorted

RECURSIVE SortByPosition(_)
SortByPosition(ps) ==
    IF ps = <<>> THEN <<>>
    ELSE InsertByPosition(SortByPosition(SubSeq(ps, 1, Len(ps) - 1)), ps[Len(ps)])

\* The HorsePosition list of one corner, lines 288-300: rank by place in the sorted
\* list, distance_from_leader in tenths of a length.
HorsePositions(sorted) ==
    [rank \in 1..Len(sorted) |->
        [horse_number |-> sorted[rank].horse.horse_number,
         running_style |-> sorted[rank].horse.running_style,
         position |-> rank,
         distance_from_leader |-> (rank - 1) * 5]]

\* One CornerPositions: the horses ranked at that corner.
CornerPositionsAt(corner_name, horses_data, pace) ==
    [corner_name |-> corner_name,
     horses |-> HorsePositions(SortByPosition(
                    [i \in 1..Len(horses_data) |->
                        [horse |-> horses_data[i],
                         position |-> CornerPosition(corner_name, horses_data[i], pace)]]))]

Corners == <<"1C", "2C", "3C", "4C", "goal">>

\* _calculate_corner_positions
CalculateCornerPositions(es, pace) ==
    LET horses_data == HorsesData(es)
    IN  [c \in 1..Len(Corners) |-> CornerPositionsAt(Corners[c], horses_data, pace)]

\* The FormationHorse list of one style group, lines 120-130: entries without a
\* horse are skipped, a missing style counts as VERSATILE.
RECURSIVE StyleGroup(_, _)
StyleGroup(es, group) ==
    IF es = <<>> THEN <<>>
    ELSE (IF /\ Head(es).has_horse
             /\ (IF Head(es).running_style = "NONE" THEN "VERSATILE"
                 ELSE Head(es).running_style) = group
              THEN <<[horse_number |-> Head(es).horse_number, running_style |-> group]>>
          ELSE <<>>)
         \o StyleGroup(Tail(es), group)

\* The rows one group of horses fills, lines 146-194: none when the group is
\* empty, one for up to four horses, two halves for more.
FormationRows(row_label, horses) ==
    IF horses = <<>> THEN <<>>
    ELSE IF Len(horses) <= 4 THEN <<[row_label |-> row_label, horses |-> horses]>>
    ELSE <<[row_label |-> row_label, horses |-> SubSeq(horses, 1, Len(horses) \div 2)],
           [row_label |-> row_label,
            horses |-> SubSeq(horses, Len(horses) \div 2 + 1, Len(horses))]>>

\* The rows in order, numbered from 0 by row_index, lines 133-202; the ESCAPE and
\* the CLOSER group are never split.
IndexedRows(rows) ==
    [k \in 1..Len(rows) |->
        [row_index |-> k - 1, row_label |-> rows[k].row_label, horses |-> rows[k].horses]]

\* _generate_start_formation
GenerateStartFormation(es) ==
    [rows |-> IndexedRows(
                  (IF StyleGroup(es, "ESCAPE") = <<>> THEN <<>>
                   ELSE <<[row_label |-> "lead", horses |-> StyleGroup(es, "ESCAPE")]>>)
                  \o FormationRows("front", StyleGroup(es, "FRONT"))
                  \o FormationRows("middle", StyleGroup(es, "STALKER")
                                                 \o StyleGroup(es, "VERSATILE"))
                  \o (IF StyleGroup(es, "CLOSER") = <<>> THEN <<>>
                      ELSE <<[row_label |-> "rear", horses |-> StyleGroup(es, "CLOSER")]>>)),
     total_horses |-> Len(es)]

\* frame_count, line 434
FrameCount == 60

\* Progress 1.0 in the unit of displayed progress and of frame times.
ProgressOne == FrameCount * 1200000

\* corner_progress.get(corner_name, 0.0), line 438, in units of 1 / FrameCount
CornerProgress(corner_name) ==
    CASE corner_name = "1C"   -> 12
      [] corner_name = "2C"   -> 24
      [] corner_name = "3C"   -> 36
      [] corner_name = "4C"   -> 48
      [] corner_name = "goal" -> 60
      [] OTHER                -> 0

\* min(max(1, (horse.position - 1) // 2 + 1), 8), line 453
LaneOfPosition(position) == Min(Max(1, (position - 1) \div 2 + 1), 8)

\* min(max(1, int(start_position) // 2 + 1), 8), line 462; start_position in
\* thousandths
StartLane(start_position) == Min(Max(1, (start_position \div 1000) \div 2 + 1), 8)

\* The (progress, position, lane) tuples in the order the loops of lines 443-456
\* meet them, each with the horse it belongs to; position in thousandths.
RECURSIVE CornerSamples(_)
CornerSamples(corner_positions) ==
    IF corner_positions = <<>> THEN <<>>
    ELSE [k \in 1..Len(Head(corner_positions).horses) |->
             [horse_number |-> Head(corner_positions).horses[k].horse_number,
              running_style |-> Head(corner_positions).horses[k].running_style,
              progress |-> CornerProgress(Head(corner_positions).corner_name),
              position |-> Head(corner_positions).horses[k].position * 1000,
              lane |-> LaneOfPosition(Head(corner_positions).horses[k].position)]]
         \o CornerSamples(Tail(corner_positions))

\* position_data[horse_number] after lines 443-463: name and style come from the
\* first tuple met for that number, the positions are all tuples met for it, and
\* the starting tuple is put in front.
HorseTrack(samples, horse_number) ==
    LET own == SelectSeq(samples, LAMBDA x : x.horse_number = horse_number)
    IN  [horse_number |-> horse_number,
         style |-> own[1].running_style,
         positions |->
             <<[progress |-> 0,
                position |-> StyleToCornerPosition(own[1].running_style),
                lane |-> StartLane(StyleToCornerPosition(own[1].running_style))]>>
             \o [k \in 1..Len(own) |->
                    [progress |-> own[k].progress,
                     position |-> own[k].position,
                     lane |-> own[k].lane]]]

\* position_data as a list in the insertion order of its keys
PositionData(samples) ==
    LET numbers == Dedupe([k \in 1..Len(samples) |-> samples[k].horse_number])
    IN  [j \in 1..Len(numbers) |-> HorseTrack(samples, numbers[j])]

\* _interpolate_value, lines 503-529, times 12: next_pos is the first tuple at or
\* after progress, prev the last tuple at or before it that the loop has seen.
InterpolateValue(positions, progress, value_index) ==
    LET k == CHOOSE n \in 1..Len(positions) :
                 /\ positions[n].progress >= progress
                 /\ \A j \in 1..(n - 1) : positions[j].progress < progress
        prev == IF positions[k].progress = progress THEN positions[k]
                ELSE positions[Max(k - 1, 1)]
    IN  IF prev.progress = positions[k].progress THEN prev[value_index] * 12
        ELSE prev[value_index] * 12
             + ((progress - prev.progress) * (positions[k][value_index] - prev[value_index])
                * 12) \div (positions[k].progress - prev.progress)

\* max(0, min(1, base_progress + position_offset)), lines 483-486, for frame i:
\* with pos the interpolated position (pos12 is pos * 12, in thousandths) and
\* d = max(total_horses - 1, 1),
\* (i / 60) * (1 + 0.12 * (1 - (pos - 1) / d) - 0.06), in units of 1 / ProgressOne
DisplayedProgress(i, pos12, d) ==
    Max(0, Min(ProgressOne, i * (106000 * d + 12000 - pos12) * (12 \div d)))

\* One AnimationHorse, lines 473-494
AnimationHorseAt(track, i, total_horses) ==
    [horse_number |-> track.horse_number,
     running_style |-> track.style,
     progress |-> DisplayedProgress(i, InterpolateValue(track.positions, i, "position"),
                                    Max(total_horses - 1, 1)),
     lane |-> Min(Max(1, InterpolateValue(track.positions, i, "lane") \div 12), 8)]

\* One AnimationFrame, lines 469-499.  Its time is the variable progress as the
\* horse loop leaves it: the displayed progress of the last horse, or, when there
\* is no horse, the value the corner loop of lines 443-444 left (goal, 1.0).
FrameOf(horses) ==
    [time |-> IF horses = <<>> THEN ProgressOne ELSE horses[Len(horses)].progress,
     horses |-> horses]

\* _generate_animation_frames
AnimationFrames(tracks) ==
    [f \in 1..(FrameCount + 1) |->
        FrameOf([j \in 1..Len(tracks) |-> AnimationHorseAt(tracks[j], f - 1, Len(tracks))])]

GenerateAnimationFrames(corner_positions) ==
    AnimationFrames(PositionData(CornerSamples(corner_positions)))

\* The probabilities dict of _simulate_scenarios, lines 329-334, in hundredths,
\* with the high and slow rows exchanged.
ScenarioProbabilitySwapped(base_pace_type, pace_type) ==
    IF base_pace_type = "high"
        THEN CASE pace_type = "high" -> 10 [] pace_type = "middle" -> 30 [] OTHER -> 60
    ELSE IF base_pace_type = "slow"
        THEN CASE pace_type = "high" -> 60 [] pace_type = "middle" -> 30 [] OTHER -> 10
    ELSE CASE pace_type = "high" -> 25 [] pace_type = "middle" -> 50 [] OTHER -> 25

\* probabilities[pace_type], lines 329-334, in hundredths
ScenarioProbability(base_pace_type, pace_type) ==
    IF base_pace_type = "high"
        THEN CASE pace_type = "high" -> 60 [] pace_type = "middle" -> 30 [] OTHER -> 10
    ELSE IF base_pace_type = "slow"
        THEN CASE pace_type = "high" -> 10 [] pace_type = "middle" -> 30 [] OTHER -> 60
    ELSE CASE pace_type = "high" -> 25 [] pace_type = "middle" -> 50 [] OTHER -> 25

\* for pace_type in ["high", "middle", "slow"], line 336
ScenarioPaceTypes == <<"high", "middle", "slow">>

\* advantageous of a scenario, lines 338-352
ScenarioAdvantageous(pace_type) ==
    CASE pace_type = "high" -> <<"STALKER", "CLOSER">>
      [] pace_type = "slow" -> <<"ESCAPE", "FRONT">>
      [] OTHER              -> <<"FRONT", "STALKER">>

\* base_score = 1.0 / (1.0 + math.log(odds + 1)) with odds = entry.odds or 50.0,
\* lines 375-376 and 591-592; in 1e-6
ScenarioBaseScore(odds) ==
    1000000000 \div (1000 + Ln1000((IF odds = 0 THEN 50 ELSE odds) + 1))

\* horse_scores of one pace scenario, lines 368-387: one row per entry that has a
\* horse; popularity is entry.popularity or 10; score in 1e-6 / 20.
RECURSIVE ScenarioHorseScores(_, _)
ScenarioHorseScores(es, scenario_pace) ==
    IF es = <<>> THEN <<>>
    ELSE (IF Head(es).has_horse
              THEN LET style == IF Head(es).running_style = "NONE" THEN "VERSATILE"
                                ELSE Head(es).running_style
                   IN  <<[horse_number |-> Head(es).horse_number,
                          running_style |-> style,
                          score |-> ScenarioBaseScore(Head(es).odds)
                                    * GetPaceAdvantageScore(style, scenario_pace),
                          popularity |-> IF Head(es).popularity = 0 THEN 10
                                         ELSE Head(es).popularity]>>
          ELSE <<>>)
         \o ScenarioHorseScores(Tail(es), scenario_pace)

\* The rankings of a scenario, lines 394-400 and 621-627: the first five rows of
\* the sorted horse_scores.
TopFive(horse_scores) ==
    [rank \in 1..Min(5, Len(horse_scores)) |->
        [rank |-> rank, horse_number |-> horse_scores[rank].horse_number]]

\* The key-horse loop, lines 403-411 and 630-638: the sorted rows whose popularity
\* is at least 6 and whose style is advantageous, until two are found.
KeyHorses(horse_scores, advantageous) ==
    LET picked == SelectSeq(horse_scores,
                            LAMBDA h : h.popularity >= 6
                                       /\ Contains(advantageous, h.running_style))
    IN  [k \in 1..Min(2, Len(picked)) |-> picked[k].horse_number]

\* _simulate_scenarios: one ScenarioResult per pace type, in the order of the loop
SimulateScenarios(es, base_pace) ==
    [k \in 1..Len(ScenarioPaceTypes) |->
        LET pace_type == ScenarioPaceTypes[k]
            advantageous == ScenarioAdvantageous(pace_type)
            horse_scores == SortByScore(ScenarioHorseScores(es,
                                [pace_type |-> pace_type,
                                 advantageous_styles |-> advantageous]))
        IN  [pace_type |-> pace_type,
             probability |-> ScenarioProbability(base_pace.pace_type, pace_type),
             rankings |-> TopFive(horse_scores),
             key_horses |-> KeyHorses(horse_scores, advantageous),
             advantageous_styles |-> advantageous]]

\* track_conditions, line 551
TrackConditions == <<"good", "slightly_heavy", "heavy", "bad">>

\* advantageous of one track condition, lines 569-580
TrackAdvantageous(total_front_advantage, pace) ==
    IF total_front_advantage >= 200 THEN <<"ESCAPE", "FRONT">>
    ELSE IF total_front_advantage >= 100 THEN <<"FRONT", "ESCAPE">>
    ELSE IF total_front_advantage <= -50 THEN <<"STALKER", "CLOSER">>
    ELSE pace.advantageous_styles

\* advantage of one horse under one track condition, lines 594-619; thousandths
TrackAdvantage(style, advantageous, total_front_advantage, condition) ==
    LET advantage ==
            IF Contains(advantageous, style)
                THEN 1400 - (IndexOf(advantageous, style) - 1) * 150
            ELSE IF style \in {"ESCAPE", "FRONT"} /\ total_front_advantage < 0 THEN 650
            ELSE IF style \in {"STALKER", "CLOSER"} /\ total_front_advantage >= 200
                THEN 600
            ELSE IF style \in {"STALKER", "CLOSER"} /\ total_front_advantage >= 100
                THEN 750
            ELSE 900
    IN  IF condition \in {"heavy", "bad"}
            THEN IF advantage > 1000 THEN 1000 + ((advantage - 1000) * 13) \div 10
                 ELSE 1000 - ((1000 - advantage) * 13) \div 10
        ELSE advantage

\* horse_scores of one track condition, lines 583-629; score in 1e-9
RECURSIVE TrackHorseScores(_, _, _, _)
TrackHorseScores(es, advantageous, total_front_advantage, condition) ==
    IF es = <<>> THEN <<>>
    ELSE (IF Head(es).has_horse
              THEN LET style == IF Head(es).running_style = "NONE" THEN "VERSATILE"
                                ELSE Head(es).running_style
                   IN  <<[horse_number |-> Head(es).horse_number,
                          running_style |-> style,
                          score |-> ScenarioBaseScore(Head(es).odds)
                                    * TrackAdvantage(style, advantageous,
                                                     total_front_advantage, condition),
                          popularity |-> IF Head(es).popularity = 0 THEN 10
                                         ELSE Head(es).popularity]>>
          ELSE <<>>)
         \o TrackHorseScores(Tail(es), advantageous, total_front_advantage, condition)

\* escape_popularities as generate_simulation collects them, lines 62-65
RECURSIVE SimulationEscapePopularities(_)
SimulationEscapePopularities(es) ==
    IF es = <<>> THEN <<>>
    ELSE (IF Head(es).running_style = "ESCAPE" /\ Head(es).popularity # 0
              THEN <<Head(es).popularity>> ELSE <<>>)
         \o SimulationEscapePopularities(Tail(es))

\* _simulate_track_conditions: one TrackConditionResult per track condition, in
\* the order of the loop; front_advantage in thousandths.
SimulateTrackConditions(es, r) ==
    [k \in 1..Len(TrackConditions) |->
        LET condition == TrackConditions[k]
            total_front_advantage == FloatAdd(VenueFrontAdvantage(r.venue),
                                              TrackFrontModifier(condition))
            pace == PredictPace([i \in 1..Len(es) |-> es[i].running_style],
                                r.distance, r.course_type, r.venue, condition,
                                SimulationEscapePopularities(es))
            advantageous == TrackAdvantageous(total_front_advantage, pace)
            horse_scores == SortByScore(TrackHorseScores(es, advantageous,
                                            total_front_advantage, condition))
        IN  [track_condition |-> condition,
             front_advantage |-> total_front_advantage,
             rankings |-> TopFive(horse_scores),
             key_horses |-> KeyHorses(horse_scores, advantageous),
             advantageous_styles |-> advantageous]]

\* The RaceSimulation built from the pace prediction and the corner positions,
\* lines 86-107.
RaceSimulationOf(es, r, pace, corner_positions) ==
    [corner_positions |-> corner_positions,
     start_formation |-> GenerateStartFormation(es),
     scenarios |-> SimulateScenarios(es, pace),
     track_condition_scenarios |-> SimulateTrackConditions(es, r),
     predicted_pace |-> pace.pace_type,
     animation_frames |-> GenerateAnimationFrames(corner_positions)]

\* The pace prediction of generate_simulation, lines 60-75
SimulationPredictPace(es, r) ==
    PredictPace([i \in 1..Len(es) |-> es[i].running_style],
                r.distance,
                IF r.course_type = "NONE" THEN "turf" ELSE r.course_type,
                r.venue, r.track_condition,
                SimulationEscapePopularities(es))

SimulationWithPace(es, r, pace) ==
    RaceSimulationOf(es, r, pace, CalculateCornerPositions(es, pace))

\* The RaceSimulation generate_simulation computes.
ComputeSimulation(es, r) == SimulationWithPace(es, r, SimulationPredictPace(es, r))

(***************************************************************************)
(* The service as a state machine: a race is created, entries are added,   *)
(* predictions and simulations are requested.                              *)
(***************************************************************************)
RaceChoices ==
    {[venue |-> "Nakayama", track_condition |-> "good", course_type |-> "turf",
      distance |-> 2000, grade |-> "G1"],
     [venue |-> "Tokyo", track_condition |-> "heavy", course_type |-> "dirt",
      distance |-> 2400, grade |-> "G3"]}

\* The entries a request can add: running style, odds, popularity, post position,
\* and whether the horse row the entry's horse_id refers to exists.
EntryProfiles ==
    {[running_style |-> "ESCAPE", odds |-> 2, popularity |-> 1, post_position |-> 2,
      has_horse |-> TRUE],
     [running_style |-> "STALKER", odds |-> 10, popularity |-> 7, post_position |-> 7,
      has_horse |-> TRUE],
     [running_style |-> "FRONT", odds |-> 10, popularity |-> 5, post_position |-> 4,
      has_horse |-> TRUE],
     [running_style |-> "NONE", odds |-> 0, popularity |-> 0, post_position |-> 0,
      has_horse |-> TRUE],
     [running_style |-> "FRONT", odds |-> 50, popularity |-> 6, post_position |-> 4,
      has_horse |-> FALSE]}

Init ==
    /\ race = NoValue
    /\ entries = <<>>
    /\ ml_predictor = "None"
    /\ predictions = <<>>
    /\ response = NoValue
    /\ running_styles = <<>>
    /\ pace_base = NoValue
    /\ pace_result = NoValue
    /\ now = 1
    /\ records = <<>>
    /\ sessions = NoCalls

\* POST /races
CreateRace ==
    /\ race = NoValue
    /\ race' \in RaceChoices
    /\ UNCHANGED <<entries, ml_predictor, predictions, response,
                   running_styles, pace_base, pace_result, now, records, sessions>>

\* POST /races/{race_id}/entries (add_race_entry): the race must exist and the
\* horse must not be entered yet; that the horse exists is not checked.
AddEntry ==
    /\ race # NoValue
    /\ Len(entries) < MaxEntries
    /\ \E profile \in EntryProfiles :
           entries' = Append(entries,
                             [horse_id |-> Len(entries) + 1,
                              horse_number |-> Len(entries) + 1,
                              running_style |-> profile.running_style,
                              odds |-> profile.odds,
                              popularity |-> profile.popularity,
                              post_position |-> profile.post_position,
                              has_horse |-> profile.has_horse])
    /\ UNCHANGED <<race, ml_predictor, predictions, response,
                   running_styles, pace_base, pace_result, now, records, sessions>>

\* The instants the wall clock can show.
Times == {1, 2}

\* Time passes between two requests; the wall clock moves forward or, when it
\* is adjusted, back.
Tick ==
    /\ now' \in Times \ {now}
    /\ UNCHANGED <<race, entries, ml_predictor, predictions, response,
                   running_styles, pace_base, pace_result, records, sessions>>

\* prediction_repo.create replacing what is stored instead of adding to it.
StoreAndReturnReplacing(race_id, predicted_at, result) ==
    /\ predictions' = <<[id |-> Len(predictions) + 1,
                         race_id |-> race_id,
                         predicted_at |-> predicted_at,
                         rankings |-> result.rankings,
                         pace_prediction |-> result.pace_prediction,
                         recommended_bets |-> result.recommended_bets]>>
    /\ response' = [kind |-> "prediction",
                    input |-> entries,
                    predicted_at |-> predicted_at,
                    use_ml |-> result.use_ml,
                    rankings |-> result.rankings,
                    pace_prediction |-> result.pace_prediction,
                    recommended_bets |-> result.recommended_bets]

\* prediction_repo.create and _to_response, lines 127-143: the prediction is
\* stored under the race id with predicted_at, the wall clock's reading at the
\* call (datetime.now(timezone.utc), line 136), and returned.
\* input and use_ml record what the call worked on.
StoreAndReturn(race_id, predicted_at, result) ==
    /\ predictions' = Append(predictions,
                             [id |-> Len(predictions) + 1,
                              race_id |-> race_id,
                              predicted_at |-> predicted_at,
                              rankings |-> result.rankings,
                              pace_prediction |-> result.pace_prediction,
                              recommended_bets |-> result.recommended_bets])
    /\ response' = [kind |-> "prediction",
                    input |-> entries,
                    predicted_at |-> predicted_at,
                    use_ml |-> result.use_ml,
                    rankings |-> result.rankings,
                    pace_prediction |-> result.pace_prediction,
                    recommended_bets |-> result.recommended_bets]

\* The race ids a request can name; the race that is created gets the first one.
RaceIds == {1, 2}

\* race_repo.get_with_entries(race_id), line 101: the race, or None
GetWithEntries(race_id) == IF race_id = 1 THEN race ELSE NoValue

\* create_prediction without the check of line 105-106 for an empty entry list
CreatePredictionWithoutEntryCheck ==
    /\ Len(predictions) < MaxPredictions
    /\ \E race_id \in RaceIds :
           IF GetWithEntries(race_id) = NoValue
               THEN /\ response' = [kind |-> "none", of |-> "create_prediction"]
                    /\ UNCHANGED <<ml_predictor, predictions>>
           ELSE \E loaded \in LoadOutcomes(ml_predictor) :
                    /\ ml_predictor' = loaded
                    /\ StoreAndReturn(race_id, now,
                                      ComputePrediction(entries, race, loaded))
    /\ UNCHANGED <<race, entries, running_styles, pace_base, pace_result, now, records, sessions>>

\* PredictionService.create_prediction
CreatePrediction ==
    /\ Len(predictions) < MaxPredictions
    /\ \E race_id \in RaceIds :
           IF GetWithEntries(race_id) = NoValue \/ entries = <<>>
               THEN /\ response' = [kind |-> "none", of |-> "create_prediction"]
                    /\ UNCHANGED <<ml_predictor, predictions>>
           ELSE \E loaded \in LoadOutcomes(ml_predictor) :
                    /\ ml_predictor' = loaded
                    /\ StoreAndReturn(race_id, now,
                                      ComputePrediction(entries, race, loaded))
    /\ UNCHANGED <<race, entries, running_styles, pace_base, pace_result, now, records, sessions>>

\* SimulationService.generate_simulation
GenerateSimulation ==
    /\ \E race_id \in RaceIds :
           IF GetWithEntries(race_id) = NoValue \/ entries = <<>>
               THEN response' = [kind |-> "none", of |-> "generate_simulation"]
           ELSE LET result == ComputeSimulation(entries, race)
                IN  response' = [kind |-> "simulation",
                                 input |-> entries,
                                 corner_positions |-> result.corner_positions,
                                 start_formation |-> result.start_formation,
                                 scenarios |-> result.scenarios,
                                 track_condition_scenarios |->
                                     result.track_condition_scenarios,
                                 predicted_pace |-> result.predicted_pace,
                                 animation_frames |-> result.animation_frames]
    /\ UNCHANGED <<race, entries, ml_predictor, predictions,
                   running_styles, pace_base, pace_result, now, records, sessions>>

\* where(Prediction.race_id == race_id): the stored predictions of one race
PredictionsOfRace(race_id) == SelectSeq(predictions, LAMBDA p : p.race_id = race_id)

\* order_by(Prediction.predicted_at.desc()): every order of the rows the database
\* may answer with; rows with equal time stamps come in either order.
OrderByPredictedAtDesc(rows) ==
    LET orders == {o \in [1..Len(rows) -> 1..Len(rows)] :
                       /\ \A i, j \in 1..Len(rows) : i # j => o[i] # o[j]
                       /\ \A i \in 1..(Len(rows) - 1) :
                              rows[o[i]].predicted_at >= rows[o[i + 1]].predicted_at}
    IN  {[i \in 1..Len(rows) |-> rows[o[i]]] : o \in orders}

\* limit(n) of a query
LimitRows(rows, n) == SubSeq(rows, 1, Min(n, Len(rows)))

\* PredictionRepository.get_by_race returning the first row of the ascending order
PredictionGetByRaceOldest(race_id) ==
    {IF ordered = <<>> THEN NoValue ELSE ordered[Len(ordered)] :
         ordered \in OrderByPredictedAtDesc(PredictionsOfRace(race_id))}

\* PredictionRepository.get_by_race: the answers of scalar_one_or_none
PredictionGetByRace(race_id) ==
    {IF ordered = <<>> THEN NoValue ELSE LimitRows(ordered, 1)[1] :
         ordered \in OrderByPredictedAtDesc(PredictionsOfRace(race_id))}

\* PredictionRepository.get_history_by_race
GetHistoryByRace(race_id, limit) ==
    {LimitRows(ordered, limit) :
         ordered \in OrderByPredictedAtDesc(PredictionsOfRace(race_id))}

\* PredictionService.get_prediction behind GET /{race_id}: the latest prediction
\* through _to_response, or None (404)
GetPrediction ==
    /\ \E race_id \in RaceIds :
           \E prediction \in PredictionGetByRace(race_id) :
               response' = IF prediction = NoValue
                               THEN [kind |-> "none", of |-> "get_prediction"]
                           ELSE [kind |-> "latest",
                                 race_id |-> prediction.race_id,
                                 predicted_at |-> prediction.predicted_at,
                                 rankings |-> prediction.rankings,
                                 pace_prediction |-> prediction.pace_prediction,
                                 recommended_bets |-> prediction.recommended_bets]
    /\ UNCHANGED <<race, entries, ml_predictor, predictions,
                   running_styles, pace_base, pace_result, now, records, sessions>>

\* limit: int = Query(10, ge=1, le=50): the limits a request names
Limits == {1, 2}

\* PredictionService.get_prediction_history behind GET /{race_id}/history
GetPredictionHistory ==
    /\ \E race_id \in RaceIds, limit \in Limits :
           \E history \in GetHistoryByRace(race_id, limit) :
               response' = [kind |-> "history",
                            race_id |-> race_id,
                            limit |-> limit,
                            items |-> [i \in 1..Len(history) |->
                                          [id |-> history[i].id,
                                           race_id |-> history[i].race_id,
                                           predicted_at |-> history[i].predicted_at]],
                            total |-> Len(history)]
    /\ UNCHANGED <<race, entries, ml_predictor, predictions,
                   running_styles, pace_base, pace_result, now, records, sessions>>

\* The prediction service: generate_simulation reads the race and its entries and
\* writes nothing, so it is explored on its own in SpecSimulation; the passing of
\* time between requests is explored in SpecHistory.
Next == CreateRace \/ AddEntry \/ CreatePrediction

Spec == Init /\ [][Next]_vars

\* Predictions are made and read back for a race that has its entry: the state
\* after POST /races and one POST /races/{race_id}/entries.
InitHistory ==
    /\ race \in RaceChoices
    /\ \E profile \in EntryProfiles :
           entries = <<[horse_id |-> 1,
                        horse_number |-> 1,
                        running_style |-> profile.running_style,
                        odds |-> profile.odds,
                        popularity |-> profile.popularity,
                        post_position |-> profile.post_position,
                        has_horse |-> profile.has_horse]>>
    /\ ml_predictor = "None"
    /\ predictions = <<>>
    /\ response = NoValue
    /\ running_styles = <<>>
    /\ pace_base = NoValue
    /\ pace_result = NoValue
    /\ now = 1
    /\ records = <<>>
    /\ sessions = NoCalls

NextHistory == Tick \/ CreatePrediction \/ GetPrediction \/ GetPredictionHistory

SpecHistory == InitHistory /\ [][NextHistory]_vars

NextSimulation == CreateRace \/ AddEntry \/ GenerateSimulation

SpecSimulation == Init /\ [][NextSimulation]_vars

(***************************************************************************)
(* Entries can be renumbered after they were added (PUT /entries/{id}); the *)
(* services read them ordered by starting number.                          *)
(***************************************************************************)
\* The starting numbers an update request sets.
HorseNumbers == {1}

\* EntryRepository.get_by_race: ORDER BY horse_number; rows with equal numbers
\* come in the order of their ids.
RECURSIVE InsertByNumber(_, _)
InsertByNumber(sorted, entry) ==
    IF sorted = <<>> THEN <<entry>>
    ELSE IF \/ Head(sorted).horse_number < entry.horse_number
            \/ /\ Head(sorted).horse_number = entry.horse_number
               /\ Head(sorted).horse_id < entry.horse_id
        THEN <<Head(sorted)>> \o InsertByNumber(Tail(sorted), entry)
    ELSE <<entry>> \o sorted

RECURSIVE GetByRace(_)
GetByRace(es) ==
    IF es = <<>> THEN <<>>
    ELSE InsertByNumber(GetByRace(Tail(es)), Head(es))

\* PUT /entries/{entry_id} (update_entry) with a horse_number: the number is
\* validated to lie in 1..18 and stored; that another entry of the race carries
\* it already is not checked.
UpdateEntry ==
    /\ \E k \in 1..Len(entries), horse_number \in HorseNumbers :
           /\ entries[k].horse_number # horse_number
           /\ entries' = GetByRace([entries EXCEPT ![k].horse_number = horse_number])
    /\ UNCHANGED <<race, ml_predictor, predictions, response,
                   running_styles, pace_base, pace_result, now, records, sessions>>

NextUpdate == CreateRace \/ AddEntry \/ UpdateEntry \/ CreatePrediction

SpecUpdate == Init /\ [][NextUpdate]_vars

(***************************************************************************)
(* _generate_start_formation and _calculate_corner_positions called as     *)
(* functions of a list of RaceEntry rows, whose running_style column is a  *)
(* nullable string.                                                        *)
(***************************************************************************)
\* The values of RaceEntry.running_style: a known style, none, or another string.
RowStyles == {"NONE", "VERSATILE", "STALKER", "SPRINTER"}

\* The PaceResult values the corner positions are computed for.
RowPaces ==
    {[pace_type |-> t, advantageous_styles |-> ScenarioAdvantageous(t)] :
         t \in {"high", "middle", "slow"}}

AppendRow ==
    /\ Len(entries) < MaxEntries
    /\ \E style \in RowStyles :
           entries' = Append(entries,
                             [horse_id |-> Len(entries) + 1,
                              horse_number |-> Len(entries) + 1,
                              running_style |-> style,
                              odds |-> 10,
                              popularity |-> 5,
                              post_position |-> 4,
                              has_horse |-> TRUE])
    /\ UNCHANGED <<race, ml_predictor, predictions, response,
                   running_styles, pace_base, pace_result, now, records, sessions>>

CallStartFormation ==
    /\ response' = [kind |-> "formation",
                    input |-> entries,
                    start_formation |-> GenerateStartFormation(entries)]
    /\ UNCHANGED <<race, entries, ml_predictor, predictions,
                   running_styles, pace_base, pace_result, now, records, sessions>>

CallCornerPositions ==
    /\ \E pace \in RowPaces :
           response' = [kind |-> "corners",
                        input |-> entries,
                        pace |-> pace,
                        corner_positions |-> CalculateCornerPositions(entries, pace)]
    /\ UNCHANGED <<race, entries, ml_predictor, predictions,
                   running_styles, pace_base, pace_result, now, records, sessions>>

NextRows == AppendRow \/ CallStartFormation \/ CallCornerPositions

SpecRows == Init /\ [][NextRows]_vars

(***************************************************************************)
(* predict_pace called as a function: the argument list is built one style *)
(* at a time, then the function is applied to it.                          *)
(***************************************************************************)
PaceStyles == {"ESCAPE", "FRONT", "STALKER"}
PaceDistances == {1400, 2000, 2400}
PaceCourseTypes == {"turf", "dirt"}
PaceVenues == {"NONE", "Nakayama", "Tokyo"}
PaceTrackConditions == {"NONE", "bad"}
PaceEscapePopularities == {<<>>, <<2>>, <<9>>}

InitPace ==
    /\ race = NoValue
    /\ entries = <<>>
    /\ ml_predictor = "None"
    /\ predictions = <<>>
    /\ response = NoValue
    /\ running_styles = <<>>
    /\ pace_base = NoValue
    /\ pace_result = NoValue
    /\ now = 1
    /\ records = <<>>
    /\ sessions = NoCalls

AppendStyle ==
    /\ Len(running_styles) < MaxStyles
    /\ \E s \in PaceStyles : running_styles' = Append(running_styles, s)
    /\ pace_base' = NoValue
    /\ pace_result' = NoValue
    /\ UNCHANGED <<race, entries, ml_predictor, predictions, response, now, records, sessions>>

CallPredictPace ==
    /\ \E distance \in PaceDistances, course_type \in PaceCourseTypes,
          venue \in PaceVenues, track_condition \in PaceTrackConditions,
          escape_popularities \in PaceEscapePopularities :
        /\ pace_base' = BasePace(Count(running_styles, "ESCAPE"),
                                 Count(running_styles, "FRONT"))
        /\ pace_result' = PredictPace(running_styles, distance, course_type, venue,
                                      track_condition, escape_popularities)
    /\ UNCHANGED <<race, entries, ml_predictor, predictions, response, running_styles, now, records, sessions>>

NextPace == AppendStyle \/ CallPredictPace

SpecPace == InitPace /\ [][NextPace]_vars

(***************************************************************************)
(* predict_pace called on fields of every base rule, with every venue,     *)
(* track condition, distance, surface and escape-popularity argument.      *)
(***************************************************************************)
AdjustFields ==
    {<<"FRONT", "STALKER">>,
     <<"ESCAPE", "FRONT", "CLOSER">>,
     <<"ESCAPE", "ESCAPE", "STALKER">>,
     <<"ESCAPE", "ESCAPE", "ESCAPE">>,
     <<"ESCAPE", "FRONT", "FRONT", "FRONT">>,
     <<"ESCAPE", "FRONT", "FRONT", "FRONT", "FRONT", "FRONT">>}
AdjustDistances == {1400, 2000, 2400}
AdjustCourseTypes == {"turf", "dirt"}
AdjustVenues == {"NONE", "Nakayama", "Tokyo", "Niigata", "Chukyo", "Ascot"}
AdjustTrackConditions == {"NONE", "slightly_heavy", "heavy", "frozen"}
AdjustEscapePopularities == {<<>>, <<2>>, <<9>>, <<5>>, <<1, 18>>}

InitAdjust ==
    /\ race = NoValue
    /\ entries = <<>>
    /\ ml_predictor = "None"
    /\ predictions = <<>>
    /\ response = NoValue
    /\ running_styles \in AdjustFields
    /\ pace_base = NoValue
    /\ pace_result = NoValue
    /\ now = 1
    /\ records = <<>>
    /\ sessions = NoCalls

CallPredictPaceWith ==
    /\ \E distance \in AdjustDistances, course_type \in AdjustCourseTypes,
          venue \in AdjustVenues, track_condition \in AdjustTrackConditions,
          escape_popularities \in AdjustEscapePopularities :
        /\ pace_base' = BasePace(Count(running_styles, "ESCAPE"),
                                 Count(running_styles, "FRONT"))
        /\ pace_result' = PredictPace(running_styles, distance, course_type, venue,
                                      track_condition, escape_popularities)
        /\ response' = [kind |-> "pace",
                        distance |-> distance,
                        course_type |-> course_type,
                        venue |-> venue,
                        track_condition |-> track_condition,
                        escape_popularities |-> escape_popularities]
    /\ UNCHANGED <<race, entries, ml_predictor, predictions, running_styles, now, records, sessions>>

SpecAdjust == InitAdjust /\ [][CallPredictPaceWith]_vars

(***************************************************************************)
(* The score functions of one horse, applied to a HorseAnalysis, a pace     *)
(* prediction, a race and an entry drawn from the sets below.               *)
(***************************************************************************)
ScoreStyles == {"ESCAPE", "FRONT", "STALKER", "CLOSER", "VERSATILE", "SPRINTER"}
\* best_last_3f and avg_last_3f, tenths of a second
ScoreLast3f == {[avg |-> 320, best |-> 320], [avg |-> 345, best |-> 340],
                [avg |-> 350, best |-> 330]}
ScoreFirstCorners == {15, 80}
\* win_rate and place_rate (1e-7) with grade_race_wins
ScoreRecords == {[win_rate |-> 0, place_rate |-> 0, grade_race_wins |-> 0],
                 [win_rate |-> 5000000, place_rate |-> 8000000, grade_race_wins |-> 3],
                 [win_rate |-> 200000, place_rate |-> 600000, grade_race_wins |-> 1]}
ScoreOdds == {0, 1, 50}
ScorePopularities == {0, 7}
ScorePaces == {[type |-> "high", advantageous_styles |-> <<"STALKER", "CLOSER">>],
               [type |-> "slow", advantageous_styles |-> <<"ESCAPE", "FRONT">>],
               [type |-> "middle", advantageous_styles |-> <<"FRONT", "STALKER">>]}
ScoreVenues == {"NONE", "Kokura", "Niigata"}
ScoreTrackConditions == {"NONE", "bad"}
ScorePostPositions == {0, 2, 7}
\* ml_predictions: empty, or the ML place probability of the horse (1e-7)
ScoreMlPredictions == {<<>>, <<0>>, <<10 * 1000 * 1000>>}

InitScores ==
    /\ race = NoValue
    /\ entries = <<>>
    /\ ml_predictor = "None"
    /\ predictions = <<>>
    /\ \E running_style \in ScoreStyles, last_3f \in ScoreLast3f,
          avg_first_corner \in ScoreFirstCorners, record \in ScoreRecords,
          odds \in ScoreOdds, popularity \in ScorePopularities, pace \in ScorePaces,
          venue \in ScoreVenues, track_condition \in ScoreTrackConditions,
          post_position \in ScorePostPositions, ml_predictions \in ScoreMlPredictions :
        response = [kind |-> "score_arguments",
                    analysis |-> [horse_id |-> 1,
                                  horse_number |-> 1,
                                  running_style |-> running_style,
                                  avg_first_corner |-> avg_first_corner,
                                  avg_last_3f |-> last_3f.avg,
                                  best_last_3f |-> last_3f.best,
                                  win_rate |-> record.win_rate,
                                  place_rate |-> record.place_rate,
                                  grade_race_wins |-> record.grade_race_wins,
                                  odds |-> odds,
                                  popularity |-> popularity],
                    pace |-> pace,
                    race |-> [venue |-> venue, track_condition |-> track_condition],
                    entry |-> [horse_id |-> 1, post_position |-> post_position],
                    ml_predictions |-> ml_predictions]
    /\ running_styles = <<>>
    /\ pace_base = NoValue
    /\ pace_result = NoValue
    /\ now = 1
    /\ records = <<>>
    /\ sessions = NoCalls

\* The body of the loop of _generate_rankings_with_pace for one horse.
CallScores ==
    /\ response.kind = "score_arguments"
    /\ LET a == response
           ml_predictions == a.ml_predictions
       IN  response' =
               [kind |-> "scores",
                arguments |-> a,
                pace_score |-> CalculatePaceScore(a.analysis, a.pace, a.race, a.entry),
                last_3f_score |-> CalculateLast3fScore(a.analysis, a.pace),
                track_record_score |-> CalculateTrackRecordScore(a.analysis),
                score |-> HorsePredictionOf(a.entry, a.analysis, a.pace, a.race,
                                            DOMAIN ml_predictions # {},
                                            ml_predictions).score]
    /\ UNCHANGED <<race, entries, ml_predictor, predictions,
                   running_styles, pace_base, pace_result, now, records, sessions>>

SpecScores == InitScores /\ [][CallScores]_vars

(***************************************************************************)
(* _calculate_corner_positions applied to the entries of one race in any    *)
(* order.  For the starting numbers below and every style the float sums    *)
(* base + jitter and their products are equal exactly when the decimal      *)
(* values are.                                                              *)
(***************************************************************************)
JitterNumbers == {1, 3, 11, 13}
JitterStyles == {"FRONT", "CLOSER"}

\* One entry per starting number of a set of two or three, in any order.
InitJitter ==
    /\ race = NoValue
    /\ \E n \in 2..3 :
           \E numbers \in [1..n -> JitterNumbers], styles \in [1..n -> JitterStyles] :
               /\ \A i, j \in 1..n : i # j => numbers[i] # numbers[j]
               /\ entries = [i \in 1..n |->
                                 [horse_id |-> numbers[i],
                                  horse_number |-> numbers[i],
                                  running_style |-> styles[i],
                                  odds |-> 10,
                                  popularity |-> 5,
                                  post_position |-> 4,
                                  has_horse |-> TRUE]]
    /\ ml_predictor = "None"
    /\ predictions = <<>>
    /\ response = NoValue
    /\ running_styles = <<>>
    /\ pace_base = NoValue
    /\ pace_result = NoValue
    /\ now = 1
    /\ records = <<>>
    /\ sessions = NoCalls

SpecJitter == InitJitter /\ [][CallCornerPositions]_vars

(***************************************************************************)
(* get_or_create of HorseRepository and JockeyRepository, called by        *)
(* concurrent requests.  Each request has its own session (get_db); a call *)
(* is two awaited statements, the SELECT of get_by_name and the INSERT of   *)
(* create, and statements of other sessions can run between them.  A        *)
(* session reads the committed rows and the rows it has flushed itself.     *)
(* The tables have an index on name and no unique constraint.  With the     *)
(* default database (SQLite) one session writes at a time: an INSERT waits  *)
(* while another session holds uncommitted rows.                            *)
(***************************************************************************)
Tables == {"horses", "jockeys"}
Names == {"Deep", "Take"}
WinRates == {15, 20}
MaxCalls == 2

\* select(model).where(model.name == name) as session s sees the table
VisibleRows(s, table, name) ==
    SelectSeq(records, LAMBDA r : /\ r.table = table
                                  /\ r.name = name
                                  /\ (r.committed \/ r.session = s))

\* session.rollback(): the rows the session has flushed and not committed go
Rollback(s) == SelectSeq(records, LAMBDA r : r.committed \/ r.session # s)

\* The primary key of the next row of a table
NextId(table) ==
    LET ids == {records[i].id : i \in {j \in DOMAIN records : records[j].table = table}}
    IN  IF ids = {} THEN 1 ELSE (CHOOSE m \in ids : \A n \in ids : n <= m) + 1

\* What a call returns: the record and the created flag.
GetOrCreateResult(table, row, created) ==
    [table |-> table, name |-> row.name, id |-> row.id, win_rate |-> row.win_rate,
     created |-> created]

\* get_or_create up to its first await: get_by_name.  scalar_one_or_none returns
\* the row, None, or raises MultipleResultsFound, which ends the request with a
\* rollback.
GetByName(s) ==
    /\ sessions[s].pc = "idle"
    /\ Len(sessions[s].results) < MaxCalls
    /\ \E table \in Tables, name \in Names, win_rate \in WinRates :
           LET found == VisibleRows(s, table, name)
           IN  IF Len(found) = 0
                   THEN /\ sessions' = [sessions EXCEPT
                                ![s].pc = "create",
                                ![s].call = [table |-> table, name |-> name,
                                             win_rate |-> win_rate]]
                        /\ UNCHANGED records
               ELSE IF Len(found) = 1
                   THEN /\ sessions' = [sessions EXCEPT
                                ![s].results = Append(@, GetOrCreateResult(table, found[1], FALSE))]
                        /\ UNCHANGED records
               ELSE /\ sessions' = [sessions EXCEPT
                            ![s].results = Append(@, [table |-> table, name |-> name,
                                                      id |-> 0, win_rate |-> 0,
                                                      created |-> FALSE])]
                    /\ records' = Rollback(s)
    /\ UNCHANGED <<race, entries, ml_predictor, predictions, response,
                   running_styles, pace_base, pace_result, now>>

\* get_or_create from `jockey = await self.create(...)` to its return: the row
\* is added and flushed, and returned with created = True.
Create(s) ==
    /\ sessions[s].pc = "create"
    /\ \A i \in DOMAIN records : records[i].committed \/ records[i].session = s
    /\ LET call == sessions[s].call
           row == [table |-> call.table, id |-> NextId(call.table), name |-> call.name,
                   win_rate |-> call.win_rate, session |-> s, committed |-> FALSE]
       IN  /\ records' = Append(records, row)
           /\ sessions' = [sessions EXCEPT
                   ![s].pc = "idle",
                   ![s].call = NoValue,
                   ![s].results = Append(@, GetOrCreateResult(call.table, row, TRUE))]
    /\ UNCHANGED <<race, entries, ml_predictor, predictions, response,
                   running_styles, pace_base, pace_result, now>>

\* get_db after the request's handler returns: session.commit()
Commit(s) ==
    /\ sessions[s].pc = "idle"
    /\ \E i \in DOMAIN records : records[i].session = s /\ ~records[i].committed
    /\ records' = [i \in DOMAIN records |->
                       IF records[i].session = s
                           THEN [records[i] EXCEPT !.committed = TRUE]
                       ELSE records[i]]
    /\ UNCHANGED <<race, entries, ml_predictor, predictions, response,
                   running_styles, pace_base, pace_result, now, sessions>>

NextGetOrCreate == \E s \in Sessions : GetByName(s) \/ Create(s) \/ Commit(s)

SpecGetOrCreate == Init /\ [][NextGetOrCreate]_vars

(***************************************************************************)
(* generate_simulation on the entries of one race, as a function of the    *)
(* race and its entries: the styles, odds and popularities below bring      *)
(* every branch of the key-horse loops and of the track-condition table.    *)
(***************************************************************************)
KeyHorseRaces ==
    {[venue |-> "Nakayama", track_condition |-> "good", course_type |-> "turf",
      distance |-> 2000, grade |-> "G1"],
     [venue |-> "Tokyo", track_condition |-> "heavy", course_type |-> "dirt",
      distance |-> 2400, grade |-> "G3"],
     [venue |-> "Kokura", track_condition |-> "NONE", course_type |-> "turf",
      distance |-> 1400, grade |-> "G3"]}

KeyHorseProfiles ==
    {[running_style |-> "STALKER", odds |-> 10, popularity |-> 0],
     [running_style |-> "STALKER", odds |-> 10, popularity |-> 7],
     [running_style |-> "FRONT", odds |-> 50, popularity |-> 6],
     [running_style |-> "CLOSER", odds |-> 2, popularity |-> 1],
     [running_style |-> "ESCAPE", odds |-> 10, popularity |-> 9]}

\* The entries of the race as get_by_race returns them, one per starting number.
InitKeyHorses ==
    /\ race \in KeyHorseRaces
    /\ \E n \in 1..MaxEntries :
           \E profiles \in [1..n -> KeyHorseProfiles] :
               entries = [i \in 1..n |->
                             [horse_id |-> i,
                              horse_number |-> i,
                              running_style |-> profiles[i].running_style,
                              odds |-> profiles[i].odds,
                              popularity |-> profiles[i].popularity,
                              post_position |-> i,
                              has_horse |-> TRUE]]
    /\ ml_predictor = "None"
    /\ predictions = <<>>
    /\ response = NoValue
    /\ running_styles = <<>>
    /\ pace_base = NoValue
    /\ pace_result = NoValue
    /\ now = 1
    /\ records = <<>>
    /\ sessions = NoCalls

SpecKeyHorses == InitKeyHorses /\ [][GenerateSimulation]_vars

(***************************************************************************)
(* calculate_post_position_effect called as a function.                    *)
(***************************************************************************)
PostPositions == {NoPostPosition} \cup 0..9
PostStyles == {"NONE", "ESCAPE", "FRONT", "STALKER", "CLOSER", "VERSATILE", "SPRINTER"}
PostVenues == {"NONE", "Nakayama", "Tokyo", "Hanshin", "Ascot"}
PostTotalHorses == {5, DefaultTotalHorses, 18}

CallPostPositionEffect ==
    /\ \E post_position \in PostPositions, running_style \in PostStyles,
          venue \in PostVenues, total_horses \in PostTotalHorses :
        response' = [kind |-> "post_effect",
                     post_position |-> post_position,
                     running_style |-> running_style,
                     venue |-> venue,
                     total_horses |-> total_horses,
                     adjustment |-> CalculatePostPositionEffect(
                                        post_position, running_style, venue, total_horses)]
    /\ UNCHANGED <<race, entries, ml_predictor, predictions,
                   running_styles, pace_base, pace_result, now, records, sessions>>

SpecPost == Init /\ [][CallPostPositionEffect]_vars

(***************************************************************************)
(* Properties.                                                             *)
(***************************************************************************)
IsPrediction == response # NoValue /\ response.kind = "prediction"

IsSimulation == response # NoValue /\ response.kind = "simulation"

\* The position in the input entry list of the entry of a ranking row.
InputIndex(input, horse_id) == CHOOSE i \in 1..Len(input) : input[i].horse_id = horse_id

RowsOf(input, rankings, i) == {k \in 1..Len(rankings) : rankings[k].horse_id = input[i].horse_id}

\* C1: for a race with a non-empty entry list, create_prediction returns a ranking
\* with exactly one row per input entry (none skipped, none duplicated) and the
\* ranks of the rows are exactly 1..N, N the number of input entries.
C1_OneRowPerEntry ==
    IsPrediction =>
        /\ Len(response.rankings) = Len(response.input)
        /\ \A i \in 1..Len(response.input) :
               Cardinality(RowsOf(response.input, response.rankings, i)) = 1
        /\ {response.rankings[k].rank : k \in 1..Len(response.rankings)}
               = 1..Len(response.input)

\* C2: the returned ranking is ordered by composite score from highest to lowest,
\* rank k belongs to the k-th row, and rows of equal composite score appear in the
\* same relative order as their entries in the input entry list.
C2_SortedStable ==
    IsPrediction =>
        LET rk == response.rankings
        IN  /\ \A k \in 1..Len(rk) : rk[k].rank = k
            /\ \A k \in 1..(Len(rk) - 1) : rk[k].score >= rk[k + 1].score
            /\ \A k \in 1..Len(rk) : \A m \in (k + 1)..Len(rk) :
                   rk[k].score = rk[m].score =>
                       InputIndex(response.input, rk[k].horse_id)
                           < InputIndex(response.input, rk[m].horse_id)

\* A ranking of three rows with a strict step and a tie.
C2_Witness ==
    /\ IsPrediction
    /\ Len(response.rankings) = 3
    /\ response.rankings[1].score > response.rankings[2].score
    /\ response.rankings[2].score = response.rankings[3].score

\* The rule table of C3, on the two counts.
RuleTable(escape_count, front_count) ==
    CASE escape_count >= 3 -> <<"high", 85, <<"STALKER", "CLOSER">> >>
      [] escape_count = 2 -> <<"high", 70, <<"STALKER", "CLOSER">> >>
      [] escape_count = 0 -> <<"slow", 80, <<"FRONT", "STALKER">> >>
      [] escape_count = 1 /\ front_count <= 2 -> <<"slow", 75, <<"ESCAPE", "FRONT">> >>
      [] escape_count = 1 /\ front_count >= 5 -> <<"middle", 60, <<"FRONT", "STALKER">> >>
      [] OTHER -> <<"middle", 50, <<"FRONT", "STALKER">> >>

\* C3: predict_pace decides the pace bucket, the base confidence and the base
\* advantaged list by the first matching rule of the table on (escape_count,
\* front_count), and the bucket it returns is the table's whatever the distance,
\* surface, venue, track condition and escape popularities are.
C3_BaseRule ==
    pace_result # NoValue =>
        LET row == RuleTable(Count(running_styles, "ESCAPE"), Count(running_styles, "FRONT"))
        IN  /\ pace_base.pace_type = row[1]
            /\ pace_base.confidence = row[2]
            /\ pace_base.advantageous = row[3]
            /\ pace_result.pace_type = row[1]

\* predict_pace has run on one escape horse and five front runners.
C3_Witness ==
    /\ pace_result # NoValue
    /\ Count(running_styles, "ESCAPE") = 1
    /\ Count(running_styles, "FRONT") = 5
    /\ pace_result.pace_type = "middle"

(***************************************************************************)
(* Odds and popularity in the scores.                                      *)
(***************************************************************************)
PopularityValues == {0, 2, 3, 4, 6, 10, 11}

OddsValues == {0, 2, 10, 50}

\* The popularity bands: 1-3, 4-5, 6, 7-10 or missing, 11 and worse.
PopularityBand(popularity) ==
    CASE popularity = 0   -> 4
      [] popularity <= 3  -> 1
      [] popularity <= 5  -> 2
      [] popularity = 6   -> 3
      [] popularity <= 10 -> 4
      [] OTHER            -> 5

\* The entry lists that differ from es only in popularity values, each entry
\* keeping its popularity band.
RECURSIVE SameBandLists(_)
SameBandLists(es) ==
    IF es = <<>> THEN {<<>>}
    ELSE {<<[Head(es) EXCEPT !.popularity = p]>> \o rest :
              p \in {q \in PopularityValues :
                         PopularityBand(q) = PopularityBand(Head(es).popularity)},
              rest \in SameBandLists(Tail(es))}

\* The entry lists that differ from es in the odds or the popularity of one entry.
OneEntryMarketChanges(es) ==
    {[es EXCEPT ![i].odds = o] : i \in 1..Len(es), o \in OddsValues}
        \cup {[es EXCEPT ![i].popularity = q] : i \in 1..Len(es), q \in PopularityValues}

\* What C4 compares between two runs without ML scores: each horse's proxies, and
\* each ranking row's horse, rank and composite score.
RankingView(rankings) ==
    [k \in 1..Len(rankings) |->
        <<rankings[k].horse_id, rankings[k].rank, rankings[k].score>>]

ProxyView(analyses) ==
    [h \in DOMAIN analyses |->
        <<analyses[h].avg_last_3f, analyses[h].best_last_3f,
          analyses[h].win_rate, analyses[h].place_rate, analyses[h].grade_race_wins>>]

MarketView(es, r) ==
    [proxies |-> ProxyView(AnalyzeAllHorses(es, r.grade)),
     ranking |-> RankingView(ComputePrediction(es, r, "False").rankings)]

\* The same view of the prediction returned.
ReturnedView ==
    [proxies |-> ProxyView(AnalyzeAllHorses(response.input, race.grade)),
     ranking |-> RankingView(response.rankings)]

\* C4 as stated: without ML scores, two entry lists that differ only in odds
\* and/or popularity values give every horse the same finishing-kick, win-rate,
\* place-rate and grade-win proxies, the same composite score and the same rank.
C4_MarketIndependent ==
    (IsPrediction /\ ~response.use_ml) =>
        \A other \in OneEntryMarketChanges(response.input) :
            MarketView(other, race) = ReturnedView

\* C4 as the code has it: without ML scores, two entry lists with the same odds
\* whose popularity values differ only within a band (1-3, 4-5, 6, 7-10 or
\* missing, 11 and worse) give every horse the same proxies, the same composite
\* score and the same rank.
C4_SameBand ==
    (IsPrediction /\ ~response.use_ml) =>
        \A other \in SameBandLists(response.input) :
            MarketView(other, race) = ReturnedView

\* A prediction without ML scores for three horses of popularity 1, 5 and 7: each
\* has another popularity value in its band.
C4_Witness ==
    /\ IsPrediction /\ ~response.use_ml
    /\ Len(response.rankings) = 3
    /\ {response.rankings[k].popularity : k \in 1..3} = {1, 5, 7}

(***************************************************************************)
(* The composite score and the dark-horse flag.                            *)
(***************************************************************************)
\* The sub-scores behind ranking row k of the returned prediction, 1e-7.
SubScores(k) ==
    LET row == response.rankings[k]
        entry == response.input[InputIndex(response.input, row.horse_id)]
        analyses == AnalyzeAllHorses(response.input, race.grade)
        analysis == analyses[row.horse_id]
        ml == GetMlPredictions(response.input, analyses, ml_predictor)
    IN  [ml |-> IF row.horse_id \in DOMAIN ml THEN ml[row.horse_id] ELSE 0,
         base |-> IF entry.odds = 0 THEN 500000 ELSE (10 * 1000 * 1000) \div entry.odds,
         pace |-> CalculatePaceScore(analysis, response.pace_prediction, race, entry),
         closing |-> CalculateLast3fScore(analysis, response.pace_prediction),
         track |-> CalculateTrackRecordScore(analysis)]

Clamp01(score) == Max(0, Min(score, 1000 * 1000 * 1000))

\* C5 as stated: the composite score is ml x 0.45 + pace x 0.35 + closing x 0.10 +
\* track x 0.10 when an ML score is present for at least one horse, and
\* pace x 0.50 + closing x 0.25 + track x 0.25 otherwise, clamped to [0, 1].
C5_SpecWeights ==
    IsPrediction =>
        \A k \in 1..Len(response.rankings) :
            LET s == SubScores(k)
            IN  response.rankings[k].score =
                    Clamp01(IF response.use_ml
                                THEN s.ml * 45 + s.pace * 35 + s.closing * 10 + s.track * 10
                            ELSE s.pace * 50 + s.closing * 25 + s.track * 25)

\* C5 as the code has it: the composite score is ml x 0.40 + pace x 0.25 +
\* closing x 0.20 + track x 0.15 when an ML score is present for at least one
\* horse, and base x 0.20 + pace x 0.35 + closing x 0.25 + track x 0.20 otherwise,
\* base being 1 / odds (0.05 without odds); the result is capped at 1.
C5_CodeWeights ==
    IsPrediction =>
        \A k \in 1..Len(response.rankings) :
            LET s == SubScores(k)
            IN  response.rankings[k].score =
                    Clamp01(IF response.use_ml
                                THEN s.ml * 40 + s.pace * 25 + s.closing * 20 + s.track * 15
                            ELSE s.base * 20 + s.pace * 35 + s.closing * 25 + s.track * 20)

\* A prediction with ML scores for three horses, one of them without odds.
C5_Witness ==
    /\ IsPrediction /\ response.use_ml
    /\ Len(response.rankings) = 3
    /\ \E k \in 1..3 : response.rankings[k].odds = 0

\* score >= median of the scores of the (sorted) ranking
AtLeastMedian(rankings, score) ==
    LET n == Len(rankings)
    IN  IF n % 2 = 1 THEN score >= rankings[(n + 1) \div 2].score
        ELSE 2 * score >= rankings[n \div 2].score + rankings[(n \div 2) + 1].score

\* C6 as stated: a horse is flagged dark-horse exactly when declared popularity -
\* rank >= 3, or declared popularity >= 7 and its composite score >= the median of
\* the field's composite scores.
C6_RankGapOrMedian ==
    IsPrediction =>
        \A k \in 1..Len(response.rankings) :
            LET row == response.rankings[k]
            IN  row.is_dark_horse <=>
                    \/ row.popularity # 0 /\ row.popularity - row.rank >= 3
                    \/ row.popularity >= 7 /\ AtLeastMedian(response.rankings, row.score)

\* C6 as the code has it: a horse is flagged dark-horse exactly when it has a
\* declared popularity of 6 or worse and a composite score of at least 0.15.
C6_PopularityAndScore ==
    IsPrediction =>
        \A k \in 1..Len(response.rankings) :
            LET row == response.rankings[k]
            IN  row.is_dark_horse <=> (row.popularity >= 6 /\ row.score >= 150000000)

\* A ranking with a flagged horse and an unflagged horse whose popularity is at
\* least three places worse than its rank.
C6_Witness ==
    /\ IsPrediction
    /\ \E k \in 1..Len(response.rankings) : response.rankings[k].is_dark_horse
    /\ \E k \in 1..Len(response.rankings) :
           /\ ~response.rankings[k].is_dark_horse
           /\ response.rankings[k].popularity - response.rankings[k].rank >= 3

\* C7: in every ranking each flagged horse has a declared popularity of 6 or worse;
\* a horse with no declared popularity or with popularity 1-5 is never flagged.
C7_FlaggedIsUnpopular ==
    IsPrediction =>
        \A k \in 1..Len(response.rankings) :
            response.rankings[k].is_dark_horse => response.rankings[k].popularity >= 6

\* A ranking with a flagged horse and an unflagged horse of popularity 1-5 whose
\* score is at least 0.15.
C7_Witness ==
    /\ IsPrediction
    /\ \E k \in 1..Len(response.rankings) : response.rankings[k].is_dark_horse
    /\ \E k \in 1..Len(response.rankings) :
           /\ response.rankings[k].popularity \in 1..5
           /\ response.rankings[k].score >= 150000000
           /\ ~response.rankings[k].is_dark_horse

(***************************************************************************)
(* The bet recommendation.                                                 *)
(***************************************************************************)
\* The tickets a returned recommendation contains.
TicketsOf(bets) ==
    {t \in {bets.trio, bets.trifecta_multi} : t # NoValue}

RECURSIVE SumStakes(_)
SumStakes(tickets) ==
    IF tickets = {} THEN 0
    ELSE LET t == CHOOSE x \in tickets : TRUE
         IN  t.combinations * t.amount_per_ticket + SumStakes(tickets \ {t})

\* C8: predict issues two tickets on the two pivot horses: Ticket A (trio) lists at
\* most 4 others from ranks 2-6 excluding the pivots, with combination count =
\* |others| at 1000 per combination; Ticket B (2-pivot multi) lists at most 3
\* others from ranks 2-5, with combination count = |others| x 6 at 200 per
\* combination; the total stake is A_count x 1000 + B_count x 200.
C8_TwoPivotTickets ==
    (IsPrediction /\ Len(response.rankings) >= 3) =>
        LET a == response.recommended_bets.trio
            b == response.recommended_bets.trifecta_multi
        IN  /\ a # NoValue /\ b # NoValue
            /\ a.amount_per_ticket = 1000
            /\ a.combinations <= 4
            /\ b.amount_per_ticket = 200
            /\ b.combinations \in {0, 6, 12, 18}
            /\ response.recommended_bets.total_investment
                   = a.combinations * 1000 + b.combinations * 200

\* C9: the total stake of a returned bet recommendation equals the sum, over
\* exactly the tickets contained in that recommendation, of combinations x price
\* per combination; it is 0 and no ticket is issued when fewer than three horses
\* are ranked.
C9_TotalIsSumOfTickets ==
    IsPrediction =>
        /\ response.recommended_bets.total_investment
               = SumStakes(TicketsOf(response.recommended_bets))
        /\ Len(response.rankings) < 3 =>
               /\ response.recommended_bets.total_investment = 0
               /\ TicketsOf(response.recommended_bets) = {}

(***************************************************************************)
(* The corner snapshots of the simulation.                                 *)
(***************************************************************************)
\* C10: simulate returns exactly five snapshots in the order 1C, 2C, 3C, 4C, goal;
\* each snapshot lists every input entry exactly once, the ranks within a snapshot
\* are exactly 1..N, and each horse's distance_from_leader is (rank - 1) x 0.5.
C10_FiveFullSnapshots ==
    IsSimulation =>
        /\ [c \in 1..Len(response.corner_positions) |->
               response.corner_positions[c].corner_name]
               = <<"1C", "2C", "3C", "4C", "goal">>
        /\ \A c \in 1..Len(response.corner_positions) :
               LET horses == response.corner_positions[c].horses
               IN  /\ \A i \in 1..Len(response.input) :
                          Cardinality({k \in 1..Len(horses) :
                                           horses[k].horse_number
                                               = response.input[i].horse_number}) = 1
                   /\ {horses[k].position : k \in 1..Len(horses)}
                          = 1..Len(response.input)
                   /\ \A k \in 1..Len(horses) :
                          horses[k].distance_from_leader = (horses[k].position - 1) * 5

\* The probability table of the specification, in hundredths, as
\* <<high, middle, slow>> for each predicted bucket.
ProbabilityTable(predicted) ==
    CASE predicted = "high" -> <<60, 30, 10>>
      [] predicted = "slow" -> <<10, 30, 60>>
      [] OTHER              -> <<25, 50, 25>>

\* C11: simulate returns exactly three pace scenarios, high, middle and slow, whose
\* probabilities are those of the fixed table keyed by the predicted bucket; they
\* sum to 1, and the scenario of the predicted bucket carries the largest
\* probability, at least 0.5.
C11_ScenarioProbabilities ==
    IsSimulation =>
        LET sc == response.scenarios
        IN  /\ Len(sc) = 3
            /\ [k \in 1..3 |-> sc[k].pace_type] = <<"high", "middle", "slow">>
            /\ [k \in 1..3 |-> sc[k].probability] = ProbabilityTable(response.predicted_pace)
            /\ sc[1].probability + sc[2].probability + sc[3].probability = 100
            /\ \A k \in 1..3 :
                   sc[k].pace_type = response.predicted_pace =>
                       /\ sc[k].probability >= 50
                       /\ \A j \in 1..3 : sc[j].probability <= sc[k].probability

\* A simulation whose predicted bucket is not the middle one.
C11_Witness ==
    /\ IsSimulation
    /\ response.predicted_pace = "high"
    /\ response.scenarios[1].probability = 60

\* The number of horses of a frame that carry the starting number of an entry.
TimesListed(frame, entry) ==
    Cardinality({j \in 1..Len(frame.horses) :
                    frame.horses[j].horse_number = entry.horse_number})

\* C12: simulate produces exactly 61 animation frames; frame k (k = 0..60) carries
\* the time value k/60, whatever the horses' positions are; and every frame lists
\* every input horse exactly once.
C12_SixtyOneEvenFrames ==
    IsSimulation =>
        LET frames == response.animation_frames
        IN  /\ Len(frames) = 61
            /\ \A k \in 0..60 :
                   /\ frames[k + 1].time * 60 = k * ProgressOne
                   /\ Len(frames[k + 1].horses) = Len(response.input)
                   /\ \A i \in 1..Len(response.input) :
                          TimesListed(frames[k + 1], response.input[i]) = 1

\* The rank at the goal of the horse with a starting number.
GoalRank(corner_positions, horse_number) ==
    LET goal == corner_positions[Len(corner_positions)].horses
    IN  goal[CHOOSE j \in 1..Len(goal) : goal[j].horse_number = horse_number].position

\* C13: in the frame at t = 0 every horse sits at its style-baseline first-corner
\* position with displayed progress 0; in the frame at t = 1 each horse's rank value
\* equals its goal rank, and ordering the horses of the last frame by displayed
\* progress gives the goal ranking: a horse of better goal rank is shown strictly
\* further along than a horse of worse goal rank.
C13_EndpointsReproduceRanks ==
    IsSimulation =>
        LET frames == response.animation_frames
            tracks == PositionData(CornerSamples(response.corner_positions))
            last == frames[Len(frames)].horses
        IN  /\ \A j \in 1..Len(tracks) :
                   /\ InterpolateValue(tracks[j].positions, 0, "position")
                          = StyleToCornerPosition(tracks[j].style) * 12
                   /\ frames[1].horses[j].progress = 0
                   /\ InterpolateValue(tracks[j].positions, FrameCount, "position")
                          = GoalRank(response.corner_positions, tracks[j].horse_number)
                            * 12000
            /\ \A a, b \in 1..Len(last) :
                   GoalRank(response.corner_positions, last[a].horse_number)
                       < GoalRank(response.corner_positions, last[b].horse_number)
                   => last[a].progress > last[b].progress

\* A step that leaves a response of one kind for the same input as the response
\* before it, as a second call with identical inputs does.
AnswersSameInput(kind) ==
    /\ response # NoValue
    /\ response.kind = kind
    /\ response'.kind = kind
    /\ response'.input = response.input

\* C14: calling predict twice, or simulate twice, with identical inputs yields
\* identical outputs in every field.
C14_IdenticalOutputs ==
    [][AnswersSameInput("prediction") \/ AnswersSameInput("simulation")
           => response' = response]_vars

\* The fields of a prediction response other than its time stamp.
WithoutTimeStamp(r) == [f \in DOMAIN r \ {"predicted_at"} |-> r[f]]

\* C14, amended: two predict calls with identical inputs yield outputs that are
\* identical in every field but predicted_at, the time stamp of the call; two
\* simulate calls with identical inputs yield identical outputs.
C14_IdenticalButTimeStamp ==
    [][/\ AnswersSameInput("prediction")
              => WithoutTimeStamp(response') = WithoutTimeStamp(response)
       /\ AnswersSameInput("simulation") => response' = response]_vars

\* Two predictions have been made for the same single entry.
C14_Witness ==
    /\ IsPrediction
    /\ Len(predictions) = 2
    /\ Len(entries) = 1
    /\ response.input = entries
    /\ Len(predictions[1].rankings) = 1
    /\ predictions[1].rankings = predictions[2].rankings

\* C15: a predict or simulate call reads and writes no state that outlives the
\* call: no step modifies the module-level predictor or the stored predictions.
C15_NoSharedStateWritten ==
    [][ml_predictor' = ml_predictor /\ predictions' = predictions]_vars

\* The result a predict call returns, as computed from what it reads.
ResultOf(r) ==
    [rankings |-> r.rankings, use_ml |-> r.use_ml,
     pace_prediction |-> r.pace_prediction, recommended_bets |-> r.recommended_bets]

\* C15, amended: a predict call writes the module-level predictor only while it
\* is still None, setting it to the loaded model or to False; it adds one record
\* to the stored predictions and changes no earlier one; and its result is a
\* function of the entries, the race and the predictor state alone, whatever
\* predictions were made before.
C15_CacheAndRecordOnly ==
    [][/\ ml_predictor' # ml_predictor
              => ml_predictor = "None" /\ ml_predictor' \in {"False", "Loaded", "LoadedFailing"}
       /\ predictions' # predictions
              => /\ Len(predictions') = Len(predictions) + 1
                 /\ SubSeq(predictions', 1, Len(predictions)) = predictions
                 /\ ResultOf(response') = ComputePrediction(entries, race, ml_predictor')]_vars

\* A second predict call has run with the predictor the first call left.
C15_Witness ==
    /\ IsPrediction
    /\ Len(predictions) = 2
    /\ ml_predictor = "Loaded"
    /\ response.use_ml
    /\ response.input = entries

\* The answer of a call that found no race or no entries (HTTP 404).
IsNoResult == response # NoValue /\ response.kind = "none"

\* C16: when the race does not exist or its entry list is empty, create_prediction
\* and generate_simulation return no result (HTTP 404), run no scoring or
\* simulation step and store no prediction: the stored predictions are the same
\* after the call as before it.
C16_NoResultNoEffect ==
    [][/\ (race = NoValue \/ entries = <<>>) /\ response' # response
              => response'.kind = "none"
       /\ response' # NoValue /\ response'.kind = "none"
              => predictions' = predictions /\ ml_predictor' = ml_predictor]_vars

\* A call for a race that does not exist was answered while a prediction of
\* another race is stored.
C16_Witness ==
    /\ IsNoResult
    /\ response.of = "create_prediction"
    /\ Len(predictions) = 1
    /\ entries # <<>>

\* Two entries of the list carry the same starting number.
HasDuplicateNumbers(es) ==
    \E i, j \in 1..Len(es) : i # j /\ es[i].horse_number = es[j].horse_number

\* C17: an entry list in which two entries carry the same starting number is
\* rejected by predict and by simulate before any scoring or simulation step runs:
\* no ranking, ticket, checkpoint snapshot or animation frame is produced for it
\* and nothing is stored.
C17_DuplicateNumbersRejected ==
    [][HasDuplicateNumbers(entries) /\ response' # response
           => /\ response'.kind \notin {"prediction", "simulation"}
              /\ predictions' = predictions]_vars

KnownStyles == {"ESCAPE", "FRONT", "STALKER", "CLOSER", "VERSATILE"}

\* The entry list with every missing or unknown running style replaced by
\* VERSATILE.
AsVersatile(es) ==
    [i \in 1..Len(es) |->
        IF es[i].running_style \in KnownStyles THEN es[i]
        ELSE [es[i] EXCEPT !.running_style = "VERSATILE"]]

\* Where the horses stand in a start formation: the rows and the numbers in them.
FormationView(formation) ==
    [rows |-> [k \in 1..Len(formation.rows) |->
                  [row_index |-> formation.rows[k].row_index,
                   row_label |-> formation.rows[k].row_label,
                   numbers |-> [j \in 1..Len(formation.rows[k].horses) |->
                                   formation.rows[k].horses[j].horse_number]]],
     total_horses |-> formation.total_horses]

\* The order of the horses at each checkpoint.
CornersView(corner_positions) ==
    [c \in 1..Len(corner_positions) |->
        [j \in 1..Len(corner_positions[c].horses) |->
            corner_positions[c].horses[j].horse_number]]

\* C18: an entry whose running style is missing or outside the known set is
\* processed exactly as a VERSATILE entry: it appears in the start formation in
\* the row where VERSATILE horses go, and it gets the VERSATILE first-corner
\* position and the VERSATILE transforms at every checkpoint.
C18_UnknownStyleAsVersatile ==
    /\ response # NoValue /\ response.kind = "formation"
           => FormationView(response.start_formation)
                  = FormationView(GenerateStartFormation(AsVersatile(response.input)))
    /\ response # NoValue /\ response.kind = "corners"
           => CornersView(response.corner_positions)
                  = CornersView(CalculateCornerPositions(AsVersatile(response.input),
                                                         response.pace))

\* C18 for missing styles alone: an entry without a running style stands and
\* moves exactly as a VERSATILE entry.
C18_MissingStyleAsVersatile ==
    response # NoValue /\ response.kind \in {"formation", "corners"}
        /\ (\A i \in 1..Len(response.input) : response.input[i].running_style # "SPRINTER")
        => C18_UnknownStyleAsVersatile

\* The ML model is missing or failed to load ("False"), or raises while
\* predicting ("LoadedFailing").
MlUnavailable == ml_predictor \in {"False", "LoadedFailing"}

\* The returned result is the one computed with the rule-only weighting, as when no
\* ML scores are supplied.
DegradedAsRuleOnly ==
    IsPrediction /\ MlUnavailable =>
        /\ ~response.use_ml
        /\ ResultOf(response) = ComputePrediction(response.input, race, "False")
        /\ \A k \in 1..Len(response.rankings) : response.rankings[k].rank = k

\* C19: when the ML model is missing, fails to load, or raises while predicting,
\* predict returns a complete result, one ranking row per entry with ranks 1..N,
\* computed with the rule-only weighting and identical to the result obtained
\* when no ML scores are supplied at all.
C19_DegradedResultComplete ==
    /\ DegradedAsRuleOnly
    /\ IsPrediction /\ MlUnavailable => Len(response.rankings) = Len(response.input)

\* The stored prediction a response of get_prediction shows
ShownPredictions ==
    {k \in 1..Len(predictions) :
         /\ predictions[k].race_id = response.race_id
         /\ predictions[k].predicted_at = response.predicted_at
         /\ predictions[k].rankings = response.rankings
         /\ predictions[k].pace_prediction = response.pace_prediction
         /\ predictions[k].recommended_bets = response.recommended_bets}

LatestIsGreatest ==
    response # NoValue /\ response.kind = "latest" =>
        /\ ShownPredictions # {}
        /\ \A k \in 1..Len(predictions) :
               predictions[k].race_id = response.race_id
                   => predictions[k].predicted_at <= response.predicted_at

HistoryLimitedDescending ==
    response # NoValue /\ response.kind = "history" =>
        /\ response.total = Len(response.items)
        /\ response.total <= response.limit
        /\ \A i \in 1..response.total :
               /\ response.items[i].race_id = response.race_id
               /\ \E k \in 1..Len(predictions) :
                      /\ predictions[k].id = response.items[i].id
                      /\ predictions[k].race_id = response.items[i].race_id
                      /\ predictions[k].predicted_at = response.items[i].predicted_at
        /\ \A i, j \in 1..response.total :
               i < j => /\ response.items[i].id # response.items[j].id
                        /\ response.items[i].predicted_at >= response.items[j].predicted_at

\* C20: through any sequence of create_prediction calls every prediction created
\* so far stays stored unchanged (a step only adds to the stored predictions);
\* get_prediction returns a stored prediction of the race that has the greatest
\* predicted_at of that race; and get_prediction_history returns at most `limit`
\* stored predictions of the race in descending predicted_at order.
C20_StoredLatestHistory ==
    /\ [][/\ Len(predictions') >= Len(predictions)
           /\ SubSeq(predictions', 1, Len(predictions)) = predictions]_vars
    /\ [](LatestIsGreatest /\ HistoryLimitedDescending)

\* Two predictions are stored, the one created first carries the later time
\* stamp, and get_prediction has answered with it.
C20_Witness ==
    /\ Len(predictions) = 2
    /\ predictions[1].predicted_at > predictions[2].predicted_at
    /\ response.kind = "latest"
    /\ response.predicted_at = predictions[1].predicted_at

IsPostEffect == response # NoValue /\ response.kind = "post_effect"

CompactVenues == {"Nakayama", "Kokura", "Fukushima", "Sapporo", "Hakodate"}

\* The adjustment the claim states for a post position, style and venue, in
\* thousandths; styles it does not name are left open (0).
StatedPostEffect(post_position, running_style, venue) ==
    IF running_style = "NONE" \/ post_position = NoPostPosition THEN 1000
    ELSE IF post_position \in {4, 5} \/ running_style = "VERSATILE" THEN 1000
    ELSE IF running_style = "ESCAPE"
        THEN (IF post_position <= 3 THEN 1050
              ELSE IF venue \in CompactVenues THEN 855 ELSE 900)
    ELSE IF running_style = "FRONT"
        THEN (IF post_position >= 6 /\ venue \in CompactVenues THEN 950 ELSE 1000)
    ELSE IF running_style \in {"STALKER", "CLOSER"}
        THEN (IF venue \notin CompactVenues THEN 1000
              ELSE IF post_position <= 3 THEN 1050 ELSE 950)
    ELSE 0

\* C21: calculate_post_position_effect returns 1.0 when the style or the post
\* position is missing, at posts 4-5 and for VERSATILE; for ESCAPE 1.05 at posts
\* <= 3 and 0.90 at posts >= 6 (0.90 x 0.95 on a compact venue); for FRONT 0.95 at
\* posts >= 6 on a compact venue and 1.0 otherwise; for STALKER and CLOSER on a
\* compact venue 1.05 at posts <= 3 and 0.95 at posts >= 6, and 1.0 on every other
\* venue; and the result is the same for every total_horses.
C21_PostPositionEffect ==
    IsPostEffect =>
        /\ StatedPostEffect(response.post_position, response.running_style,
                            response.venue) \in {0, response.adjustment}
        /\ \A total_horses \in PostTotalHorses :
               CalculatePostPositionEffect(response.post_position, response.running_style,
                                           response.venue, total_horses)
                   = response.adjustment

\* An ESCAPE horse from gate 7 on a compact venue in a field of five.
C21_Witness ==
    /\ IsPostEffect
    /\ response.running_style = "ESCAPE"
    /\ response.post_position = 7
    /\ response.venue = "Nakayama"
    /\ response.total_horses = 5
    /\ response.adjustment = 855

IsPaceCall == response # NoValue /\ response.kind = "pace"

\* Venue front-advantage plus track-condition modifier as the decimal sum, in
\* hundredths; an unknown or missing venue or condition counts as 0.
StatedFrontAdvantage ==
    VenueFrontAdvantage(response.venue) + TrackFrontModifier(response.track_condition)

MeanAtLeast(popularities, bound) ==
    popularities # <<>> /\ SumSeq(popularities) >= bound * Len(popularities)

\* The confidence the claim states, in hundredths.
StatedConfidence ==
    LET bucket == pace_result.pace_type
        popularities == response.escape_popularities
        escape_quality ==
            IF /\ popularities # <<>>
               /\ \/ (\E i \in 1..Len(popularities) : popularities[i] <= 3) /\ bucket = "high"
                  \/ MeanAtLeast(popularities, 8) /\ bucket = "slow"
                THEN 10 ELSE 0
        distance_step ==
            IF \/ response.distance >= 2400 /\ bucket = "high"
               \/ response.distance <= 1400 /\ bucket = "slow"
                THEN 10 ELSE 0
        venue_step ==
            IF StatedFrontAdvantage >= 15 \/ StatedFrontAdvantage <= -10 THEN 5 ELSE 0
    IN  Max(30, Min(100, pace_base.confidence - escape_quality - distance_step + venue_step))

\* C22: the confidence returned by predict_pace is the base-rule confidence,
\* minus 0.10 when escape_popularities is given and (some value <= 3 and the
\* bucket is high) or (the mean >= 8 and the bucket is slow), minus 0.10 when
\* (distance >= 2400 and high) or (distance <= 1400 and slow), plus 0.05 when the
\* venue front-advantage plus the track modifier is >= 0.15 or <= -0.10, clamped
\* to [0.3, 1.0].
C22_ConfidenceSteps ==
    IsPaceCall =>
        /\ pace_result.confidence = StatedConfidence
        /\ pace_result.confidence >= 30 /\ pace_result.confidence <= 100

\* The list the claim states: the base rule's list after the three steps.
StatedAdvantageous ==
    LET bucket == pace_result.pace_type
        base == pace_base.advantageous
        surface == IF response.course_type = "dirt"
                      /\ ~Contains(base, "ESCAPE") /\ ~Contains(base, "FRONT")
                       THEN <<"FRONT">> \o base ELSE base
        front == IF StatedFrontAdvantage >= 15 /\ bucket = "slow"
                     THEN <<"ESCAPE">> \o SelectSeq(surface, LAMBDA x : x # "ESCAPE")
                 ELSE surface
    IN  IF StatedFrontAdvantage <= -10 /\ bucket = "high" /\ ~Contains(front, "CLOSER")
            THEN Append(front, "CLOSER") ELSE front

\* C23: the advantaged-style list returned by predict_pace is the base rule's
\* list changed only by, in this order: on dirt FRONT inserted at the front if
\* the list has neither ESCAPE nor FRONT; ESCAPE put at the front if the venue
\* front-advantage plus track modifier is >= 0.15 and the bucket is slow; CLOSER
\* appended if absent if that sum is <= -0.10 and the bucket is high.  The list
\* has between 1 and 4 entries and names no style twice.
C23_AdvantagedList ==
    IsPaceCall =>
        LET list == pace_result.advantageous_styles
        IN  /\ list = StatedAdvantageous
            /\ Len(list) >= 1 /\ Len(list) <= 4
            /\ \A i, j \in 1..Len(list) : i # j => list[i] # list[j]

\* A field without an escape horse on a front-favouring venue: ESCAPE has been
\* put in front of the base rule's list.
C23_Witness ==
    /\ IsPaceCall
    /\ pace_base.advantageous = <<"FRONT", "STALKER">>
    /\ pace_result.advantageous_styles = <<"ESCAPE", "FRONT", "STALKER">>

\* Ranking row k carries the score of the ML weighting, with ml_score 0.0 for a
\* horse that has no ML score.
MlWeighted(k) ==
    LET s == SubScores(k)
    IN  response.rankings[k].score =
            Clamp01(s.ml * 40 + s.pace * 25 + s.closing * 20 + s.track * 15)

\* Ranking row k carries the score of the rule-only weighting.
RuleWeighted(k) ==
    LET s == SubScores(k)
    IN  response.rankings[k].score =
            Clamp01(s.base * 20 + s.pace * 35 + s.closing * 25 + s.track * 20)

\* The horses of the call's field for which an ML score was supplied.
MlScored ==
    DOMAIN GetMlPredictions(response.input,
                            AnalyzeAllHorses(response.input, race.grade), ml_predictor)

\* C24: within one predict call every horse of the field is scored with the
\* same weighting: the ML weighting for all when an ML score was supplied for at
\* least one horse, the rule-only weighting for all otherwise; a horse without an
\* ML score in an ML-weighted field is scored with ml_score = 0.0.
C24_OneWeightingPerField ==
    IsPrediction =>
        /\ response.use_ml <=> MlScored # {}
        /\ IF MlScored # {}
               THEN \A k \in 1..Len(response.rankings) : MlWeighted(k)
           ELSE \A k \in 1..Len(response.rankings) : RuleWeighted(k)

\* An ML-weighted field of three horses whose ML scores are 0.8, 0.3 and 0.1, so
\* that the two weightings give each of them a different score.
C24_Witness ==
    /\ IsPrediction /\ response.use_ml
    /\ Len(response.rankings) = 3
    /\ {SubScores(k).ml : k \in 1..3} = {8000000, 3000000, 1000000}
    /\ \A k \in 1..3 : ~RuleWeighted(k)

IsScores == response # NoValue /\ response.kind = "scores"

\* C25: for every horse and every input, pace_score lies in [0.05, 0.5],
\* closing_ability_score is at most 0.4, track_record_score is at most 0.4, and
\* the composite score lies in [0, 1].
C25_ScoreBounds ==
    IsScores =>
        /\ response.pace_score >= 500000 /\ response.pace_score <= 5000000
        /\ response.last_3f_score <= 4000000
        /\ response.track_record_score <= 4000000
        /\ response.score >= 0 /\ response.score <= 1000 * 1000 * 1000

\* An ESCAPE horse that leads (first corner 1.5) from gate 2 at Kokura in a slow
\* pace that favours it: (0.35 + 0.06) x 1.05 + 0.1 is above 0.5, and the pace
\* score returned is 0.5.
C25_Witness ==
    /\ IsScores
    /\ response.arguments.analysis.running_style = "ESCAPE"
    /\ response.arguments.analysis.avg_first_corner = 15
    /\ response.arguments.entry.post_position = 2
    /\ response.arguments.race.venue = "Kokura"
    /\ response.arguments.race.track_condition = "NONE"
    /\ response.arguments.pace.type = "slow"
    /\ response.pace_score = 5000000

\* The number of 3-element subsets of a set of n elements.
Choose3(n) == (n * (n - 1) * (n - 2)) \div 6

\* C26: whenever a trio box ticket is issued, its combination count equals the
\* number of distinct 3-horse subsets of the horses listed on it, C(n, 3) for n
\* listed horses (10 for five horses).
C26_TrioBoxCombinations ==
    (IsPrediction /\ response.recommended_bets.trio # NoValue) =>
        LET trio == response.recommended_bets.trio
            listed == {trio.horses[i] : i \in 1..Len(trio.horses)}
        IN  trio.combinations = Choose3(Cardinality(listed))

IsCorners == response # NoValue /\ response.kind = "corners"

\* The position values of the horses of the call at one checkpoint.
PositionValues(corner_name) ==
    LET horses_data == HorsesData(response.input)
    IN  [i \in 1..Len(horses_data) |->
            CornerPosition(corner_name, horses_data[i], response.pace)]

\* C27: within one race with unique starting numbers the jitter breaks every
\* tie: no two horses have the same position value at any of the first four
\* checkpoints, and the ranks at those checkpoints are the ones the same entries
\* get when they are supplied in the order of their starting numbers.
C27_JitterBreaksTies ==
    (IsCorners /\ ~HasDuplicateNumbers(response.input)) =>
        \A c \in 1..4 :
            /\ \A i, j \in DOMAIN PositionValues(Corners[c]) :
                   i # j => PositionValues(Corners[c])[i] # PositionValues(Corners[c])[j]
            /\ response.corner_positions[c]
                   = CalculateCornerPositions(GetByRace(response.input), response.pace)[c]

\* The key-horse lists of a simulation with the advantaged list each belongs to.
KeyHorseLists ==
    {[key_horses |-> response.scenarios[k].key_horses,
      advantageous_styles |-> response.scenarios[k].advantageous_styles] :
         k \in DOMAIN response.scenarios}
    \cup
    {[key_horses |-> response.track_condition_scenarios[k].key_horses,
      advantageous_styles |-> response.track_condition_scenarios[k].advantageous_styles] :
         k \in DOMAIN response.track_condition_scenarios}

\* The entry of the simulated race that carries a starting number.
EntryOfNumber(horse_number) ==
    CHOOSE e \in {response.input[i] : i \in DOMAIN response.input} :
        e.horse_number = horse_number

\* C28: every pace scenario and every track-condition scenario lists at most two
\* key horses, every listed key horse has a declared popularity of 6 or worse and
\* a running style in that scenario's advantaged list, and a horse with no
\* declared popularity is never listed.
C28_KeyHorses ==
    IsSimulation =>
        \A list \in KeyHorseLists :
            /\ Len(list.key_horses) <= 2
            /\ \A k \in DOMAIN list.key_horses :
                   LET entry == EntryOfNumber(list.key_horses[k])
                   IN  /\ entry.popularity # 0
                       /\ entry.popularity >= 6
                       /\ Contains(list.advantageous_styles, entry.running_style)

\* clamp(((rank - 1) div 2) + 1, 1, 8) for a rank in thousandths
StatedLane(rank) == Min(Max(1, (rank - 1000) \div 2000 + 1), 8)

\* The polylines of the horses of a simulation.
Polylines == PositionData(CornerSamples(response.corner_positions))

\* C29: every point of a horse's animation polyline, the start point built from
\* the style-baseline position as well as the five checkpoints, has the lane
\* clamp(((rank - 1) div 2) + 1, 1, 8) of its rank; the lane of a frame at a
\* point of the polyline is the lane of that point whatever the displayed
\* progress; and every lane of every frame is an integer in 1..8.
C29_AnimationLanes ==
    IsSimulation =>
        /\ \A j \in DOMAIN Polylines :
               \A k \in DOMAIN Polylines[j].positions :
                   Polylines[j].positions[k].lane
                       = StatedLane(Polylines[j].positions[k].position)
        /\ \A j \in DOMAIN Polylines :
               \A k \in DOMAIN Polylines[j].positions :
                   response.animation_frames[Polylines[j].positions[k].progress + 1]
                       .horses[j].lane = Polylines[j].positions[k].lane
        /\ \A f \in DOMAIN response.animation_frames :
               \A j \in DOMAIN response.animation_frames[f].horses :
                   response.animation_frames[f].horses[j].lane \in 1..8

\* The committed rows of one name in one table.
RecordsOf(table, name) ==
    SelectSeq(records, LAMBDA r : r.table = table /\ r.name = name /\ r.committed)

\* C30: after any interleaving of get_or_create calls of concurrent sessions at
\* most one record exists per name, every call for the name returned that record
\* with its original attributes, and only one call for the name reported
\* created = true.
C30_GetOrCreateOnce ==
    \A table \in Tables, name \in Names :
        LET returned == {x \in UNION {{[session |-> s, call |-> k] :
                                           k \in DOMAIN sessions[s].results} :
                                      s \in Sessions} :
                            /\ sessions[x.session].results[x.call].table = table
                            /\ sessions[x.session].results[x.call].name = name}
            result(x) == sessions[x.session].results[x.call]
        IN  /\ Len(RecordsOf(table, name)) <= 1
            /\ \A x, y \in returned :
                   /\ result(x).id = result(y).id
                   /\ result(x).win_rate = result(y).win_rate
                   /\ (result(x).created /\ result(y).created) => x = y
            /\ \A x \in returned :
                   Len(RecordsOf(table, name)) = 1 =>
                       /\ result(x).id = RecordsOf(table, name)[1].id
                       /\ result(x).win_rate = RecordsOf(table, name)[1].win_rate

====
